---- MODULE Spec2Model ----
(***************************************************************************)
(* Backtest orchestration pipeline of gentrade-back:                       *)
(*   create_backtest -> AsyncTask.__call__ -> run_backtest_task            *)
(*     -> FTMarketData.download (verify, docker download, verify)          *)
(*     -> FTBacktesting.run_backtest (docker backtesting, result lookup)   *)
(*     -> cleanup_results -> status write.                                 *)
(* One Celery worker process executes the queued tasks one after another.  *)
(***************************************************************************)
EXTENDS Integers, Sequences, FiniteSets, TLC

\* ---------------------------------------------------------------- bounds
MaxLogLen == 2
MaxTasks == 3
MaxLines == 2

\* correlation ids a caller may supply; "" is "none supplied"
Cids == {"", "c1", "c2"}
\* date_range strings of a request; "" is the empty range
DateRanges == {"", "20240101-20240102"}
\* exchange.pair_whitelist values of the user's config.json
PairLists == {<< >>, <<"BTC/USDT:USDT">>}
\* strategy.draft["timeframe"]
StrategyTimeframe == "1h"
\* names the backtesting tool may give to the bundle it writes
BundleNames == {"backtest-result-A"}
\* what a bundle in the results folder can hold
BundleKinds == {"good", "badzip", "nojson", "badjson"}

NoSummary == [none |-> TRUE]
NoExc == [type |-> "none"]
NoRet == [state |-> "none", error_message |-> "none"]
NoResult ==
  [ success |-> FALSE, error_type |-> "unset", error_message |-> "unset",
    verified_files |-> << >>, date_range_info |-> << >>, warnings |-> << >> ]

\* ------------------------------------------------------- log entries
\* records of the per-invocation .jsonl log: timestamp, level, name, message;
\* a "dumping json to" message carries the quoted path of the bundle
LogEntries ==
  { [ts |-> 2, level |-> "ERROR",   name |-> "freqtrade",      message |-> "boom", path |-> ""],
    [ts |-> 1, level |-> "ERROR",   name |-> "freqtrade.data", message |-> "no data", path |-> ""],
    [ts |-> 1, level |-> "WARNING", name |-> "freqtrade",      message |-> "careful", path |-> ""],
    [ts |-> 3, level |-> "INFO",    name |-> "freqtrade.misc", message |-> "dumping json to", path |-> "backtest-result-A"],
    [ts |-> 3, level |-> "INFO",    name |-> "freqtrade.optimize", message |-> "dumping json to", path |-> "backtest-result-A"] }

RECURSIVE SeqsUpTo(_)
SeqsUpTo(n) ==
  IF n = 0 THEN { << >> }
  ELSE LET shorter == SeqsUpTo(n - 1)
       IN shorter \cup { Append(s, e) : s \in { t \in shorter : Len(t) = n - 1 }, e \in LogEntries }

LogContents == SeqsUpTo(MaxLogLen)

\* ---------------------------------------------------- structured log parser
\* JsonlLogParser / LogSummary (util/ft/verification/log_parser.py as imported
\* by ft_base.py): entries bucketed by severity, each list sorted by timestamp
RECURSIVE InsertByTs(_, _)
InsertByTs(sorted, e) ==
  IF sorted = << >> THEN << e >>
  ELSE IF sorted[Len(sorted)].ts <= e.ts THEN Append(sorted, e)
  ELSE Append(InsertByTs(SubSeq(sorted, 1, Len(sorted) - 1), e), sorted[Len(sorted)])

RECURSIVE SortByTs(_)
SortByTs(entries) ==
  IF entries = << >> THEN << >>
  ELSE InsertByTs(SortByTs(SubSeq(entries, 1, Len(entries) - 1)), entries[Len(entries)])

RECURSIVE SelectLevel(_, _)
SelectLevel(entries, lvl) ==
  IF entries = << >> THEN << >>
  ELSE IF Head(entries).level = lvl
       THEN << Head(entries) >> \o SelectLevel(Tail(entries), lvl)
       ELSE SelectLevel(Tail(entries), lvl)

process_log_file(content) ==
  [ none     |-> FALSE,
    errors   |-> SortByTs(SelectLevel(content, "ERROR")),
    warnings |-> SortByTs(SelectLevel(content, "WARNING")),
    info     |-> SortByTs(SelectLevel(content, "INFO")),
    entries  |-> SortByTs(content) ]

RECURSIVE SelectName(_, _)
SelectName(entries, component) ==
  IF entries = << >> THEN << >>
  ELSE IF Head(entries).name = component
       THEN << Head(entries) >> \o SelectName(Tail(entries), component)
       ELSE SelectName(Tail(entries), component)

get_entries_by_component(log_summary, component) ==
  SelectName(log_summary.entries, component)

\* ------------------------------------------- timeframe / range utilities
\* instants and durations are counted in seconds; 2024-01-01T00:00:00 is 0

\* TimeframeUtils.TIMEFRAME_MAP
TIMEFRAME_MAP ==
  ("1m" :> 60) @@ ("3m" :> 180) @@ ("5m" :> 300) @@ ("15m" :> 900)
  @@ ("30m" :> 1800) @@ ("1h" :> 3600) @@ ("2h" :> 7200) @@ ("4h" :> 14400)
  @@ ("6h" :> 21600) @@ ("8h" :> 28800) @@ ("12h" :> 43200) @@ ("1d" :> 86400)
  @@ ("3d" :> 259200) @@ ("1w" :> 604800) @@ ("1M" :> 2592000)

\* a call that returned v / a call that raised
Returned(v) == [raised |-> FALSE, value |-> v]
Raised(type, message) == [raised |-> TRUE, type |-> type, message |-> message]

\* TimeframeUtils.parse_timeframe: ValueError on an unknown timeframe
parse_timeframe(timeframe) ==
  IF timeframe \in DOMAIN TIMEFRAME_MAP
  THEN Returned(TIMEFRAME_MAP[timeframe])
  ELSE Raised("ValueError", "Invalid timeframe format")

\* date_range.split("-") for the range strings a caller can pass
SplitDash ==
  ("20240101-20240102" :> << "20240101", "20240102" >>)
  @@ ("20240101-20240101" :> << "20240101", "20240101" >>)
  @@ ("20240102-20240101" :> << "20240102", "20240101" >>)
  @@ ("20240101" :> << "20240101" >>)
  @@ ("2024-01-01" :> << "2024", "01", "01" >>)

\* datetime.strptime(s, "%Y%m%d") for the strings it accepts
Strptime == ("20240101" :> 0) @@ ("20240102" :> 86400)

\* end_date.replace(hour=23, minute=59, second=59)
EndOfDay(midnight) == midnight + 23 * 3600 + 59 * 60 + 59

\* mutant: the end date stays at midnight
parse_date_range_mut(date_range) ==
  LET parts == SplitDash[date_range]
  IN IF Len(parts) # 2 \/ parts[1] \notin DOMAIN Strptime \/ parts[2] \notin DOMAIN Strptime
     THEN Raised("ValueError", "Invalid date range format")
     ELSE Returned([start |-> Strptime[parts[1]], end |-> Strptime[parts[2]]])

\* TimeframeUtils.parse_date_range: two %Y%m%d dates, the end moved to
\* 23:59:59 of its day; anything else is a ValueError
parse_date_range(date_range) ==
  LET parts == SplitDash[date_range]
  IN IF Len(parts) # 2 \/ parts[1] \notin DOMAIN Strptime \/ parts[2] \notin DOMAIN Strptime
     THEN Raised("ValueError", "Invalid date range format")
     ELSE Returned([start |-> Strptime[parts[1]], end |-> EndOfDay(Strptime[parts[2]])])

\* int(a / b) for b > 0: the quotient truncated towards zero
TruncDiv(a, b) == IF a >= 0 THEN a \div b ELSE -((-a) \div b)

\* mutant: the end point is not counted
calculate_expected_candles_mut(start_date, end_date, timeframe) ==
  LET interval == parse_timeframe(timeframe)
  IN IF interval.raised THEN interval
     ELSE Returned(TruncDiv(end_date - start_date, interval.value))

\* TimeframeUtils.calculate_expected_candles
calculate_expected_candles(start_date, end_date, timeframe) ==
  LET interval == parse_timeframe(timeframe)
  IN IF interval.raised THEN interval
     ELSE Returned(TruncDiv(end_date - start_date, interval.value) + 1)

\* df.sort_values("date"): row i goes to the position given by the number
\* of rows that sort before it
sort_values(dates) ==
  LET n == Len(dates)
      position == [i \in 1..n |->
                     1 + Cardinality({ j \in 1..n :
                           dates[j] < dates[i] \/ (dates[j] = dates[i] /\ j < i) })]
  IN [k \in 1..n |-> dates[CHOOSE i \in 1..n : position[i] = k]]

\* find_gaps(..., min_gap_size: int = 2)
min_gap_size == 2

\* mutant: the candle that closes the gap is counted as missing
ConsecutiveRows_mut(sorted, interval) ==
  [i \in 1..(Len(sorted) - 1) |->
     [ start_date |-> sorted[i], end_date |-> sorted[i + 1],
       missing_candles |-> TruncDiv(sorted[i + 1] - sorted[i], interval) ]]

\* the loop of find_gaps: for each pair of consecutive rows of the sorted
\* frame the time difference and the candles missing between them
ConsecutiveRows(sorted, interval) ==
  [i \in 1..(Len(sorted) - 1) |->
     [ start_date |-> sorted[i], end_date |-> sorted[i + 1],
       missing_candles |-> TruncDiv(sorted[i + 1] - sorted[i], interval) - 1 ]]

\* TimeframeUtils.find_gaps: the pairs further apart than the interval with
\* at least min_gap_size candles missing, in row order
find_gaps(dates, timeframe) ==
  LET interval == parse_timeframe(timeframe)
      IsGap(g) == /\ g.end_date - g.start_date > interval.value
                  /\ g.missing_candles >= min_gap_size
  IN IF interval.raised THEN interval
     ELSE Returned(SelectSeq(ConsecutiveRows(sort_values(dates), interval.value), IsGap))

\* ------------------------------------------------------------ market data
\* a path below the working directory: base directory ("" when the path is
\* relative to the data root), trading-mode directory, and the three parts of
\* the file name {pair}-{tf}-{kind}.feather under _common_data
Path(base, dir, pair, tf, kind) ==
  [base |-> base, dir |-> dir, pair |-> pair, tf |-> tf, kind |-> kind]

\* pair.replace("/", "_").replace(":", "_")
FormatPair(pair) ==
  CASE pair = "BTC/USDT:USDT" -> "BTC_USDT_USDT"
    [] pair = "BTC/USDT" -> "BTC_USDT"
    [] OTHER -> pair

\* FTMarketData._generate_expected_files: per pair and timeframe the candle
\* file, and in futures mode the 8h mark and funding-rate files
RECURSIVE FilesOfTimeframes(_, _, _)
FilesOfTimeframes(pair, timeframes, trading_mode) ==
  IF timeframes = << >> THEN << >>
  ELSE LET tf == Head(timeframes)
           main == << Path("", trading_mode, FormatPair(pair), tf, trading_mode) >>
           aux == IF trading_mode = "futures"
                  THEN << Path("", trading_mode, FormatPair(pair), "8h", "mark"),
                          Path("", trading_mode, FormatPair(pair), "8h", "funding_rate") >>
                  ELSE << >>
       IN main \o aux \o FilesOfTimeframes(pair, Tail(timeframes), trading_mode)

RECURSIVE generate_expected_files(_, _, _)
generate_expected_files(pairs, timeframes, trading_mode) ==
  IF pairs = << >> THEN << >>
  ELSE FilesOfTimeframes(Head(pairs), timeframes, trading_mode)
       \o generate_expected_files(Tail(pairs), timeframes, trading_mode)

\* DataDownloadVerifier(base_dir="ft_userdata"): full_path = base_dir / file_path
base_dir == "ft_userdata"
JoinPath(base, file_path) == [file_path EXCEPT !.base = base]

Range(seq) == { seq[i] : i \in DOMAIN seq }

\* every data file the pipeline can ask for, as it lies on disk
DataFiles ==
  { JoinPath(base_dir, f) :
      f \in Range(generate_expected_files(<<"BTC/USDT:USDT">>, <<StrategyTimeframe>>, "futures")) }

\* ------------------------------------------------------- data files on disk
\* what a path holds: nothing, bytes that are not a feather file, or a frame
\* with its columns and the values of its date column in row order
required_columns == {"date", "open", "high", "low", "close", "volume"}
NoFile == [exists |-> FALSE, readable |-> FALSE, columns |-> {}, dates |-> << >>]
Unreadable == [exists |-> TRUE, readable |-> FALSE, columns |-> {}, dates |-> << >>]
Frame(columns, dates) ==
  [exists |-> TRUE, readable |-> TRUE, columns |-> columns, dates |-> dates]
\* n hourly rows starting at hour h0
Hourly(h0, n) == [i \in 1..n |-> (h0 + i - 1) * 3600]
EmptyFrame == Frame(required_columns, << >>)
FullFrame == Frame(required_columns, Hourly(0, 48))

\* state of a data file in a pipeline run: absent, empty, or covering the
\* requested range
FileStates == { NoFile, EmptyFrame, FullFrame }

\* ----------------------------------------------------- DataDownloadVerifier
\* mutant: warnings count as errors
docker_errors_mut(docker_result) == docker_result.errors \o docker_result.warnings

\* verify_docker_execution: the entries that make it raise
docker_errors(docker_result) == docker_result.errors

\* verify_docker_execution: error entries raise, warnings are only logged
verify_docker_execution(docker_result) ==
  IF docker_errors(docker_result) # << >>
  THEN Raised("DockerExecutionError", "Docker command failed with error")
  ELSE Returned("None")

RECURSIVE SelectFiles(_, _, _)
SelectFiles(files, d, wanted) ==
  IF files = << >> THEN << >>
  ELSE IF d[JoinPath(base_dir, Head(files))].exists = wanted
       THEN << Head(files) >> \o SelectFiles(Tail(files), d, wanted)
       ELSE SelectFiles(Tail(files), d, wanted)

JoinAll(base, files) == [i \in DOMAIN files |-> JoinPath(base, files[i])]

\* mutant: the scan stops at the first missing file
missing_files_mut(expected_files, d) ==
  LET missing == SelectFiles(expected_files, d, FALSE)
  IN IF missing = << >> THEN << >> ELSE << missing[1] >>

\* the missing_files list built by the loop of verify_files_existence
missing_files(expected_files, d) == SelectFiles(expected_files, d, FALSE)

\* mutant: the missing files are skipped instead of reported
verify_files_existence_mut(expected_files, d) ==
  Returned(JoinAll(base_dir, SelectFiles(expected_files, d, TRUE)))

\* verify_files_existence: one FileVerificationError naming every missing
\* file, else the full paths of the files
verify_files_existence(expected_files, d) ==
  LET missing == missing_files(expected_files, d)
  IN IF missing # << >>
     THEN [raised |-> TRUE, type |-> "FileVerificationError",
           message |-> "Some expected files are missing",
           details |-> [missing_files |-> missing]]
     ELSE Returned(JoinAll(base_dir, SelectFiles(expected_files, d, TRUE)))

MinOf(dates) == CHOOSE t \in Range(dates) : \A u \in Range(dates) : t <= u
MaxOf(dates) == CHOOSE t \in Range(dates) : \A u \in Range(dates) : u <= t

\* mutant: the gaps are counted, not the candles missing in them
SumMissing_mut(gaps) == Len(gaps)

\* sum(gap[2] for gap in gaps)
RECURSIVE SumMissing(_)
SumMissing(gaps) ==
  IF gaps = << >> THEN 0 ELSE Head(gaps).missing_candles + SumMissing(Tail(gaps))

\* mutant: a shortfall of rows is let through
insufficient_candles_mut(candles_found, candles_expected) == FALSE

\* verify_date_range: the row-count test
insufficient_candles(candles_found, candles_expected) == candles_found < candles_expected

\* mutant: data outside the requested window goes unnoticed
has_extra_data_mut(actual_start, actual_end, requested_start, requested_end) == FALSE

\* verify_date_range: data outside the requested window
has_extra_data(actual_start, actual_end, requested_start, requested_end) ==
  actual_start < requested_start \/ actual_end > requested_end

\* verify_date_range on a non-empty frame; coverage_percentage is kept as the
\* exact fraction num / den
verify_date_range(df, date_range, timeframe) ==
  LET requested == parse_date_range(date_range)
  IN IF requested.raised THEN requested
     ELSE
       LET requested_start == requested.value.start
           requested_end == requested.value.end
           actual_start == MinOf(df.dates)
           actual_end == MaxOf(df.dates)
           expected == calculate_expected_candles(requested_start, requested_end, timeframe)
       IN IF expected.raised THEN expected
          ELSE
            LET candles_expected == expected.value
                candles_found == Len(df.dates)
            IN IF insufficient_candles(candles_found, candles_expected)
               THEN Raised("DataIntegrityError", "Insufficient candles")
               ELSE
                 LET gaps == find_gaps(df.dates, timeframe).value
                     total_missing_candles == SumMissing(gaps)
                 IN Returned(
                      [ requested_start |-> requested_start,
                        requested_end |-> requested_end,
                        actual_start |-> actual_start,
                        actual_end |-> actual_end,
                        coverage_percentage |->
                          [num |-> (candles_expected - total_missing_candles) * 100,
                           den |-> candles_expected],
                        has_extra_data |->
                          has_extra_data(actual_start, actual_end,
                                         requested_start, requested_end),
                        gaps |-> gaps,
                        candles_expected |-> candles_expected,
                        candles_found |-> candles_found ])

\* no DateRangeInfo for a file (None)
NoRangeInfo == [none |-> TRUE]

\* the except clauses of verify_data_integrity: a DataIntegrityError is
\* re-raised, every other error is wrapped into one
reraise_integrity_error(outcome) ==
  IF outcome.raised /\ outcome.type # "DataIntegrityError"
  THEN Raised("DataIntegrityError", "Failed to verify data integrity")
  ELSE outcome

\* verify_data_integrity: read the file, refuse an empty frame or a missing
\* column, then check the date range when a range and a timeframe are given.
\* "" stands for a timeframe of None and for an empty date range
verify_data_integrity(content, date_range, timeframe) ==
  IF ~ content.readable
  THEN Raised("DataIntegrityError", "Failed to verify data integrity")
  ELSE IF content.dates = << >> \/ content.columns = {}
  THEN Raised("DataIntegrityError", "File contains no data")
  ELSE IF required_columns \ content.columns # {}
  THEN Raised("DataIntegrityError", "File is missing required columns")
  ELSE IF date_range # "" /\ timeframe # ""
  THEN reraise_integrity_error(verify_date_range(content, date_range, timeframe))
  ELSE Returned(NoRangeInfo)

\* verify_download: the timeframe of a file is the first tf of timeframes
\* with "-{tf}-" in its path
RECURSIVE TimeframeOf(_, _)
TimeframeOf(timeframes, file_path) ==
  IF timeframes = << >> THEN ""
  ELSE IF Head(timeframes) = file_path.tf THEN Head(timeframes)
  ELSE TimeframeOf(Tail(timeframes), file_path)

\* the warnings verify_download appends for one file's DateRangeInfo
WarningsOf(file_path, range_info) ==
  (IF range_info.gaps # << >>
   THEN << [kind |-> "gaps", count |-> Len(range_info.gaps), file |-> file_path] >>
   ELSE << >>)
  \o (IF range_info.has_extra_data
      THEN << [kind |-> "extra_data", count |-> 0, file |-> file_path] >>
      ELSE << >>)
  \o (IF range_info.coverage_percentage.num < 100 * range_info.coverage_percentage.den
      THEN << [kind |-> "coverage", count |-> 0, file |-> file_path] >>
      ELSE << >>)

\* a call of one of the verifier's stage methods, with the file it is about
NoPath == Path("", "", "", "", "")
Call(method, file_path) == [method |-> method, file |-> file_path]

\* step 3 of verify_download: the loop over the verified files; acc holds
\* the warnings, the date_range_info entries and the calls made so far
RECURSIVE IntegrityLoop(_, _, _, _, _)

\* one pass of the loop: r is what verify_data_integrity did for the file
IntegrityStep(todo, date_range, timeframes, d, acc, file_path, r) ==
  IF r.raised
  THEN [ raised |-> TRUE, type |-> r.type, message |-> r.message,
         calls |-> Append(acc.calls, Call("verify_data_integrity", file_path)) ]
  ELSE IntegrityLoop(Tail(todo), date_range, timeframes, d,
         [ warnings |-> IF r.value = NoRangeInfo THEN acc.warnings
                        ELSE acc.warnings \o WarningsOf(file_path, r.value),
           date_range_info |-> IF r.value = NoRangeInfo THEN acc.date_range_info
                               ELSE Append(acc.date_range_info,
                                           [file |-> file_path, info |-> r.value]),
           calls |-> Append(acc.calls, Call("verify_data_integrity", file_path)) ])

IntegrityLoop(todo, date_range, timeframes, d, acc) ==
  IF todo = << >> THEN [raised |-> FALSE, value |-> acc]
  ELSE IntegrityStep(todo, date_range, timeframes, d, acc, Head(todo),
         verify_data_integrity(d[Head(todo)], date_range,
                               TimeframeOf(timeframes, Head(todo))))

\* the VerificationResult built by the except branch of verify_download
VerificationFailure(error_type, error_message) ==
  [ success |-> FALSE, error_type |-> error_type, error_message |-> error_message,
    verified_files |-> << >>, date_range_info |-> << >>, warnings |-> << >> ]

\* the end of verify_download once every file was found: loop is the
\* outcome of step 3
VerifiedOutcome(verified_files, loop) ==
  IF loop.raised
  THEN [result |-> VerificationFailure(loop.type, loop.message), calls |-> loop.calls]
  ELSE [ result |->
           [ success |-> TRUE, error_type |-> "None", error_message |-> "None",
             verified_files |-> verified_files,
             date_range_info |-> loop.value.date_range_info,
             warnings |-> loop.value.warnings ],
         calls |-> loop.value.calls ]

\* verify_download from step 2 on: existing is the outcome of
\* verify_files_existence and calls the calls made up to it
ExistenceOutcome(existing, calls, date_range, timeframes, d) ==
  IF existing.raised
  THEN [result |-> VerificationFailure(existing.type, existing.message), calls |-> calls]
  ELSE VerifiedOutcome(existing.value,
         IntegrityLoop(existing.value, date_range, timeframes, d,
           [warnings |-> << >>, date_range_info |-> << >>, calls |-> calls]))

\* mutant: a file that was read is left unreadable
after_verification_mut(d) ==
  [f \in DOMAIN d |-> IF d[f].exists THEN Unreadable ELSE d[f]]

\* the data root after verify_download: os.path.exists and pd.read_feather
\* only read, no path is written, moved or removed
after_verification(d) == d

\* DataDownloadVerifier.verify_download with the calls it made: docker
\* result, then existence of every expected file, then integrity of every
\* file; the first stage that raises decides the error classification
VerifyRun(docker_result, expected_files, date_range, timeframes, d) ==
  LET docker == IF docker_result # NoSummary
                THEN verify_docker_execution(docker_result)
                ELSE Returned("None")
      calls1 == IF docker_result # NoSummary
                THEN << Call("verify_docker_execution", NoPath) >> ELSE << >>
  IN IF docker.raised
     THEN [result |-> VerificationFailure(docker.type, docker.message), calls |-> calls1]
     ELSE ExistenceOutcome(verify_files_existence(expected_files, d),
                           Append(calls1, Call("verify_files_existence", NoPath)),
                           date_range, timeframes, d)

verify_download(docker_result, expected_files, date_range, timeframes, d) ==
  VerifyRun(docker_result, expected_files, date_range, timeframes, d).result

\* --------------------------------------------------------------- backtesting
\* FTBacktesting._extract_backtest_result_name: first freqtrade.misc entry
\* whose message contains "dumping json to"; "" stands for None
RECURSIVE FirstDumping(_)
FirstDumping(entries) ==
  IF entries = << >> THEN ""
  ELSE IF Head(entries).message = "dumping json to" THEN Head(entries).path
  ELSE FirstDumping(Tail(entries))

extract_backtest_result_name(log_summary) ==
  FirstDumping(get_entries_by_component(log_summary, "freqtrade.misc"))

\* ------------------------------------------------------------------- state
VARIABLES
  status,           \* persisted BacktestsORM.status of the job ("absent" before the insert)
  results,          \* persisted results payload of the job
  writes,           \* every committed status write, in order
  pc,               \* position of the job / of run_backtest_task
  date_range,       \* date_range argument of the request and of the task
  expected_files,   \* manifest computed by FTMarketData.download
  download_result,  \* VerificationResult held by run_backtest_task
  log_summary,      \* LogSummary parsed by the last run_docker_command
  log_file,         \* name of the log artifact of the running docker command
  command,          \* argument vector of the running docker command
  docker_out,       \* outcome of docker.compose.run awaiting the log parse
  exc,              \* exception travelling up the call chain
  ret,              \* value returned by run_backtest_task
  raised,           \* exception that left run_backtest_task
  celery_state,     \* state recorded by AsyncTask.async_run
  backtest_results, \* value returned by FTBacktesting.run_backtest
  disk,             \* state of every data file under the data root
  logs_dir,         \* log artifacts present in the logs directory
  results_dir,      \* bundles present in the backtest results folder
  uuid_ctr,         \* uuid4 values drawn so far
  temp_dirs,        \* directories made by tempfile.mkdtemp that still exist
  trace,            \* calls made by the run, in order (observation only)
  correlation_id,   \* ContextVar correlation_id in the worker process's own context
  task_ctx,         \* the same ContextVar in the context copy of the running asyncio task
  kwargs_cid,       \* correlation_id keyword argument of the task being executed
  wpc,              \* position of the worker process
  executed,         \* per executed task: the id it was given and the id its body saw
  verify_args,      \* arguments of a call of FTMarketData.download's verification
  data_root,        \* content of every path under the verifier's base directory
  verify_run,       \* VerificationResult of that call and the stage calls it made
  verify_rerun,     \* the same for a second call with the same arguments
  vpc,              \* position of the verification call
  docker_output,    \* stderr and stdout handed to DockerLogParser.process_docker_output
  parser_summary,   \* DockerLogParser.summary, returned by process_docker_output
  ppc,              \* position of the parse
  call_args,        \* arguments of a direct call of a method
  call_result,      \* what a direct call of a utility returned or raised
  jpc,              \* per concurrent job: position of its run_backtest_task
  jlog,             \* per job: log artifact name of its running docker command
  jnames,           \* per job: every log artifact name it attached to a command
  jparsed,          \* per job: the writers of the log artifacts it parsed
  jexc,             \* per job: the exception that ended it
  jtrace            \* per job: the calls it made, in order (observation only)

vars == << status, results, writes, pc, date_range, expected_files,
           download_result, log_summary, log_file, command, docker_out, exc,
           ret, raised, celery_state, backtest_results, disk, logs_dir,
           results_dir, uuid_ctr, temp_dirs, trace,
           correlation_id, task_ctx, kwargs_cid, wpc, executed,
           verify_args, data_root, verify_run, verify_rerun, vpc,
           docker_output, parser_summary, ppc, call_args, call_result,
           jpc, jlog, jnames, jparsed, jexc, jtrace >>

worker == << correlation_id, task_ctx, kwargs_cid, wpc, executed >>
verifier == << verify_args, data_root, verify_run, verify_rerun, vpc >>
parser == << docker_output, parser_summary, ppc >>
caller == << call_args, call_result >>
jobs == << jpc, jlog, jnames, jparsed, jexc, jtrace >>

task_locals == << expected_files, download_result, log_summary, log_file,
                  command, docker_out, backtest_results >>
files == << disk, logs_dir, results_dir, uuid_ctr, temp_dirs >>
db == << status, results, writes >>

NoFiles == [n \in {} |-> << >>]
NoBundles == [n \in {} |-> "good"]
ResultsDirs == { NoBundles } \cup UNION { [{n} -> BundleKinds] : n \in BundleNames }

\* outcome of docker.compose.run: normal return or DockerException
DockerOutcomes ==
  { [ok |-> TRUE, return_code |-> 0, stdout |-> "", stderr |-> ""] }
  \cup { [ok |-> FALSE, return_code |-> rc, stdout |-> "out", stderr |-> "docker failed"] : rc \in {1, 125} }

\* the job before the request that creates it
PipelineInit ==
  /\ status = "absent"
  /\ results = "null"
  /\ writes = << >>
  /\ pc = "request"
  /\ date_range = ""
  /\ expected_files = << >>
  /\ download_result = NoResult
  /\ log_summary = NoSummary
  /\ log_file = 0
  /\ command = << >>
  /\ docker_out = [ok |-> TRUE, return_code |-> 0, stdout |-> "", stderr |-> ""]
  /\ exc = NoExc
  /\ ret = NoRet
  /\ raised = NoExc
  /\ celery_state = "PENDING"
  /\ backtest_results = "unset"
  /\ disk \in [DataFiles -> FileStates]
  /\ logs_dir = NoFiles
  /\ results_dir \in ResultsDirs
  /\ uuid_ctr = 0
  /\ temp_dirs = {}
  /\ trace = << >>

\* an idle worker process: the ContextVar holds its default
WorkerIdle ==
  /\ correlation_id = ""
  /\ task_ctx = ""
  /\ kwargs_cid = ""
  /\ wpc = "idle"
  /\ executed = << >>

\* no verification call and no parse under way
NoArgs == [none |-> TRUE]
NoRun == [none |-> TRUE]
NoOutput == [stderr |-> << >>, stdout |-> << >>]
NoDockerLogSummary == [warnings |-> << >>, errors |-> << >>, total_warnings |-> 0, total_errors |-> 0]

VerifierIdle ==
  /\ verify_args = NoArgs
  /\ data_root = << >>
  /\ verify_run = NoRun
  /\ verify_rerun = NoRun
  /\ vpc = "idle"

ParserIdle ==
  /\ docker_output = NoOutput
  /\ parser_summary = NoDockerLogSummary
  /\ ppc = "idle"

\* no direct call under way
NoCall == [none |-> TRUE]
CallerIdle ==
  /\ call_args = NoCall
  /\ call_result = NoCall

\* no concurrent jobs
JobsIdle ==
  /\ jpc = << >>
  /\ jlog = << >>
  /\ jnames = << >>
  /\ jparsed = << >>
  /\ jexc = << >>
  /\ jtrace = << >>

Init ==
  /\ PipelineInit
  /\ WorkerIdle
  /\ VerifierIdle
  /\ ParserIdle
  /\ CallerIdle
  /\ JobsIdle

\* a committed edit_one / add_one of the status column
WriteStatus(s) ==
  /\ status' = s
  /\ writes' = Append(writes, s)

\* BacktestsService.create_backtest: insert the row, commit, enqueue the task
create_backtest ==
  /\ pc = "request"
  /\ \E dr \in DateRanges : date_range' = dr
  /\ WriteStatus("running")
  /\ pc' = "queued"
  /\ UNCHANGED << results, task_locals, exc, ret, raised, celery_state, files, trace >>
  /\ UNCHANGED << worker, verifier, parser, caller, jobs >>

\* ------------------------------------------------------------- exceptions
Exception(type, message) == [type |-> type, message |-> message]

\* util/exceptions.py: the structured execution error
PickleableDockerException(message, e, cmd) ==
  [ type |-> "PickleableDockerException", message |-> message, command |-> cmd,
    exit_code |-> e.return_code, stdout |-> e.stdout, stderr |-> e.stderr ]

\* user_data/config.json as FTUserConfig.read_config finds it
ConfigStates ==
  { [exists |-> FALSE, pair_whitelist |-> << >>] }
  \cup { [exists |-> TRUE, pair_whitelist |-> p] : p \in PairLists }

\* ------------------------------------------------------- run_backtest_task
\* AsyncTask.__call__ / async_run start the body: update_state(PROGRESS)
AsyncTask_call ==
  /\ pc = "queued"
  /\ celery_state' = "PROGRESS"
  /\ pc' = "start"
  /\ UNCHANGED << db, date_range, task_locals, exc, ret, raised, files, trace >>
  /\ UNCHANGED << worker, verifier, parser, caller, jobs >>

\* what a find_one call does: it returns the row, or res.scalar_one() (or
\* the session) raises
LookupOutcomes == { "found", "raised" }

\* sqlalchemy.exc.NoResultFound as scalar_one raises it
NoResultFound == Exception("NoResultFound", "No row was found when one was required")

\* strategy and job lookup, then the first status write of the task.  A
\* failing strategy lookup is outside the try block: the error goes straight
\* to AsyncTask.async_run, which records FAILURE and re-raises.  A failing
\* job lookup is inside the try block and is caught by the except block.
task_begin ==
  /\ pc = "start"
  /\ status # "absent"
  /\ \E strategy_lookup, job_lookup \in LookupOutcomes :
       IF strategy_lookup = "raised"
       THEN /\ raised' = NoResultFound
            /\ celery_state' = "FAILURE"
            /\ pc' = "done"
            /\ UNCHANGED << status, writes, exc >>
       ELSE IF job_lookup = "raised"
       THEN /\ exc' = NoResultFound
            /\ pc' = "handler"
            /\ UNCHANGED << status, writes, raised, celery_state >>
       ELSE /\ WriteStatus("downloading_data")
            /\ pc' = "download"
            /\ UNCHANGED << exc, raised, celery_state >>
  /\ UNCHANGED << results, date_range, task_locals, ret, files, trace >>
  /\ UNCHANGED << worker, verifier, parser, caller, jobs >>

\* mutant: the fast path is lost and the download always runs
skip_download_mut(r) == FALSE

\* FTMarketData.download: the test on the pre-download verification result
skip_download(r) == r.success

\* mutant: an empty timeframes list is let through
download_input_error_mut(pairs, timeframes, dr) ==
  IF pairs = << >> THEN Exception("ValueError", "Pairs list cannot be empty")
  ELSE IF dr = "" THEN Exception("ValueError", "Date range cannot be empty")
  ELSE NoExc

\* FTMarketData.download, input validation: the ValueError it raises, if any
download_input_error(pairs, timeframes, dr) ==
  IF pairs = << >> THEN Exception("ValueError", "Pairs list cannot be empty")
  ELSE IF timeframes = << >> THEN Exception("ValueError", "Timeframes list cannot be empty")
  ELSE IF dr = "" THEN Exception("ValueError", "Date range cannot be empty")
  ELSE NoExc

\* FTMarketData.download(pairs, timeframes, date_range) up to the
\* pre-download verification: invalid input raises, verified data returns,
\* anything else builds the download command
download_begin(pairs, timeframes, dr, on_raise, on_return) ==
  IF download_input_error(pairs, timeframes, dr) # NoExc
  THEN /\ exc' = download_input_error(pairs, timeframes, dr)
       /\ pc' = on_raise
       /\ UNCHANGED << expected_files, download_result, command, trace >>
  ELSE \E r \in { verify_download(NoSummary,
                      generate_expected_files(pairs, timeframes, "futures"),
                      dr, timeframes, disk) } :
         /\ expected_files' = generate_expected_files(pairs, timeframes, "futures")
         /\ trace' = Append(trace, IF r.success THEN "verify_pre_ok" ELSE "verify_pre_failed")
         /\ exc' = exc
         /\ IF skip_download(r)
            THEN /\ download_result' = r
                 /\ pc' = on_return
                 /\ command' = command
            ELSE /\ download_result' = download_result
                 /\ pc' = "dl_compose_run"
                 /\ command' = << "download-data" >>

\* run_backtest_task: read the user's configuration, then call
\* FTMarketData.download with its pair whitelist and the strategy's timeframe
download_precheck ==
  /\ pc = "download"
  /\ \E config \in ConfigStates :
       IF ~ config.exists
       THEN /\ exc' = Exception("FileNotFoundError", "Configuration file not found")
            /\ pc' = "handler"
            /\ UNCHANGED << expected_files, download_result, command, trace >>
       ELSE download_begin(config.pair_whitelist, << StrategyTimeframe >>, date_range,
                           "handler", "check_download")
  /\ UNCHANGED << db, date_range, log_summary, log_file, docker_out, ret, raised,
                  celery_state, backtest_results, files >>
  /\ UNCHANGED << worker, verifier, parser, caller, jobs >>

\* FTBase.run_docker_command, first half: a fresh log artifact name is
\* appended to the command and the container runs, writing its log
compose_run(cmd) ==
  /\ uuid_ctr' = uuid_ctr + 1
  /\ log_file' = uuid_ctr + 1
  /\ command' = cmd \o << "--logfile", uuid_ctr + 1 >>
  /\ \E content \in LogContents, out \in DockerOutcomes :
       /\ logs_dir' = (uuid_ctr + 1 :> content) @@ logs_dir
       /\ docker_out' = out

\* the download-data container: it may leave any data file in any state
download_compose_run ==
  /\ pc = "dl_compose_run"
  /\ compose_run(command)
  /\ disk' \in [DataFiles -> FileStates]
  /\ trace' = Append(trace, "docker_download")
  /\ pc' = "dl_docker_exit"
  /\ UNCHANGED << db, date_range, expected_files, download_result, log_summary,
                  exc, ret, raised, celery_state, backtest_results, results_dir,
                  temp_dirs >>
  /\ UNCHANGED << worker, verifier, parser, caller, jobs >>

\* mutant: the log artifact is left behind
remove_log_mut(dir, name) == dir

\* os.remove(jsonl_file) in both branches of run_docker_command
remove_log(dir, name) == [n \in DOMAIN dir \ {name} |-> dir[n]]

\* the except DockerException branch of run_docker_command: the message is
\* built from log_summary.errors[0], which raises IndexError on an empty list
docker_failure(summary, e, cmd) ==
  IF summary.errors = << >>
  THEN Exception("IndexError", "list index out of range")
  ELSE PickleableDockerException(
         << summary.errors[1].name, summary.errors[1].message >>, e, cmd)

\* FTBase.run_docker_command, second half: parse the log artifact, delete
\* it, then return the summary or raise
run_docker_command_exit ==
  /\ pc \in {"dl_docker_exit", "bt_docker_exit"}
  /\ LET summary == process_log_file(logs_dir[log_file])
     IN /\ logs_dir' = remove_log(logs_dir, log_file)
        /\ log_summary' = summary
        /\ IF docker_out.ok
           THEN /\ exc' = exc
                /\ trace' = trace \o << "log_parsed", "returned" >>
                /\ pc' = IF pc = "dl_docker_exit" THEN "dl_verify" ELSE "bt_resolve"
           ELSE /\ exc' = docker_failure(summary, docker_out, command)
                /\ trace' = trace \o << "log_parsed", "raised" >>
                /\ pc' = "handler"
  /\ UNCHANGED << db, date_range, expected_files, download_result, log_file,
                  command, docker_out, ret, raised, celery_state,
                  backtest_results, disk, results_dir, uuid_ctr, temp_dirs >>
  /\ UNCHANGED << worker, verifier, parser, caller, jobs >>

\* FTMarketData.download: verification after the download command returned
download_postcheck ==
  /\ pc = "dl_verify"
  /\ download_result' = verify_download(log_summary, expected_files, date_range,
                                      << StrategyTimeframe >>, disk)
  /\ trace' = Append(trace, "verify_post")
  /\ pc' = "check_download"
  /\ UNCHANGED << db, date_range, expected_files, log_summary, log_file, command,
                  docker_out, exc, ret, raised, celery_state, backtest_results,
                  files >>
  /\ UNCHANGED << worker, verifier, parser, caller, jobs >>

\* mutant: the task ignores the verification result
download_failed_mut(r) == FALSE

\* run_backtest_task: the test on download_result.success
download_failed(r) == ~ r.success

\* mutant: the failure branch lacks its return and falls through
after_download_failure_mut == "run_backtest"

\* run_backtest_task: where the task goes after recording a failed download
after_download_failure == "done"

\* run_backtest_task after FTMarketData.download returned
task_check_download ==
  /\ pc = "check_download"
  /\ IF download_failed(download_result)
     THEN /\ WriteStatus("failed")
          /\ ret' = [state |-> "failure", error_message |-> download_result.error_message]
          /\ pc' = after_download_failure
          /\ celery_state' = IF after_download_failure = "done" THEN "SUCCESS" ELSE celery_state
     ELSE /\ WriteStatus("running")
          /\ pc' = "run_backtest"
          /\ UNCHANGED << ret, celery_state >>
  /\ UNCHANGED << results, date_range, task_locals, exc, raised, files, trace >>
  /\ UNCHANGED << worker, verifier, parser, caller, jobs >>

\* strategy.file of the strategy row, and the files of the strategies folder
StrategyFiles == { "", "Strategy.py" }
StrategiesDirs == { {}, { "Strategy.py" } }

\* FTBacktesting._validate_strategy_file
validate_strategy_file(strategy_file, strategies_dir) == strategy_file \in strategies_dir

\* mutant: the date range is not checked
run_backtest_input_error_mut(strategy_file, strategies_dir, dr) ==
  IF strategy_file = "" \/ ~ validate_strategy_file(strategy_file, strategies_dir)
  THEN Exception("ValueError", "Invalid strategy name or file does not exist")
  ELSE NoExc

\* FTBacktesting.run_backtest, input validation: the ValueError it raises, if any
run_backtest_input_error(strategy_file, strategies_dir, dr) ==
  IF strategy_file = "" \/ ~ validate_strategy_file(strategy_file, strategies_dir)
  THEN Exception("ValueError", "Invalid strategy name or file does not exist")
  ELSE IF dr = "" THEN Exception("ValueError", "Date range cannot be empty")
  ELSE NoExc

\* FTBacktesting.run_backtest(strategy_file, date_range) up to the container
\* run, which may write a bundle into the results folder
run_backtest_begin(strategy_file, strategies_dir, dr, on_raise) ==
  IF run_backtest_input_error(strategy_file, strategies_dir, dr) # NoExc
  THEN /\ exc' = run_backtest_input_error(strategy_file, strategies_dir, dr)
       /\ pc' = on_raise
       /\ UNCHANGED << log_file, command, docker_out, logs_dir, results_dir,
                       uuid_ctr, trace >>
  ELSE /\ compose_run(<< "backtesting" >>)
       /\ results_dir' \in { results_dir } \cup (ResultsDirs \ { NoBundles })
       /\ trace' = Append(trace, "docker_backtesting")
       /\ exc' = exc
       /\ pc' = "bt_docker_exit"

\* run_backtest_task: FTBacktesting(clerk_id).run_backtest(strategy.file, date_range)
run_backtest_compose_run ==
  /\ pc = "run_backtest"
  /\ \E strategy_file \in StrategyFiles, strategies_dir \in StrategiesDirs :
       run_backtest_begin(strategy_file, strategies_dir, date_range, "handler")
  /\ UNCHANGED << db, date_range, expected_files, download_result, log_summary,
                  ret, raised, celery_state, backtest_results, disk, temp_dirs >>
  /\ UNCHANGED << worker, verifier, parser, caller, jobs >>

\* tempfile.mkdtemp(): a directory that did not exist before
mkdtemp(dirs) == CHOOSE n \in 1..(Cardinality(dirs) + 1) : n \notin dirs

\* FTBacktestParser._cleanup_temp_dir
cleanup_temp_dir(dirs, temp_dir) == dirs \ { temp_dir }

\* FTBacktestParser(folder, result_name).parse_zip() on the bundle found
\* under that name ("absent" when there is no ZIP): the constructor raises
\* without a ZIP; _extract_zip makes the temporary directory and raises on a
\* bad ZIP before the try/finally of parse_zip is entered; inside it every
\* exit removes the temporary directory
parse_zip(bundle, dirs) ==
  IF bundle = "absent"
  THEN [raised |-> TRUE, exc |-> Exception("FileNotFoundError", "Associated ZIP file not found"),
        temp_dirs |-> dirs]
  ELSE LET temp_dir == mkdtemp(dirs)
           extracted == dirs \cup { temp_dir }
       IN IF bundle = "badzip"
          THEN [raised |-> TRUE, exc |-> Exception("BacktestResultError", "badzip"),
                temp_dirs |-> extracted]
          ELSE IF bundle = "good"
          THEN [raised |-> FALSE, data |-> "payload",
                temp_dirs |-> cleanup_temp_dir(extracted, temp_dir)]
          ELSE [raised |-> TRUE, exc |-> Exception("BacktestResultError", bundle),
                temp_dirs |-> cleanup_temp_dir(extracted, temp_dir)]

\* FTBacktesting.run_backtest after the container returned: locate the bundle
\* through the log, then FTBacktestParser(...).parse_zip(); without a result
\* name the method logs an error and returns None
run_backtest_resolve ==
  /\ pc = "bt_resolve"
  /\ LET result_name == extract_backtest_result_name(log_summary)
     IN IF result_name # ""
        THEN LET bundle == IF result_name \in DOMAIN results_dir
                           THEN results_dir[result_name] ELSE "absent"
                 parsed == parse_zip(bundle, temp_dirs)
             IN /\ temp_dirs' = parsed.temp_dirs
                /\ trace' = Append(trace, "parse_zip")
                /\ IF parsed.raised
                   THEN /\ exc' = parsed.exc
                        /\ pc' = "handler"
                        /\ backtest_results' = backtest_results
                   ELSE /\ backtest_results' = parsed.data
                        /\ pc' = "cleanup"
                        /\ exc' = exc
        ELSE /\ backtest_results' = "None"
             /\ pc' = "cleanup"
             /\ UNCHANGED << exc, temp_dirs, trace >>
  /\ UNCHANGED << db, date_range, expected_files, download_result, log_summary, log_file,
                  command, docker_out, ret, raised, celery_state, disk, logs_dir,
                  results_dir, uuid_ctr >>
  /\ UNCHANGED << worker, verifier, parser, caller, jobs >>

\* FTBacktesting.cleanup_results: rmtree of the results folder
cleanup_results ==
  /\ pc = "cleanup"
  /\ results_dir' = NoBundles
  /\ pc' = "finish"
  /\ UNCHANGED << db, date_range, task_locals, exc, ret, raised, celery_state,
                  disk, logs_dir, uuid_ctr, temp_dirs, trace >>
  /\ UNCHANGED << worker, verifier, parser, caller, jobs >>

\* run_backtest_task: the success write and the result envelope;
\* async_run then records SUCCESS
task_finish ==
  /\ pc = "finish"
  /\ WriteStatus("finished")
  /\ results' = backtest_results
  /\ ret' = [state |-> "success", error_message |-> "none"]
  /\ celery_state' = "SUCCESS"
  /\ pc' = "done"
  /\ UNCHANGED << date_range, task_locals, exc, raised, files, trace >>
  /\ UNCHANGED << worker, verifier, parser, caller, jobs >>

\* mutant: the handler raises a new error instead of the caught one
reraise_mut(e) == Exception("RuntimeError", "backtest failed")

\* run_backtest_task: raise e at the end of the except block
reraise(e) == e

\* the except Exception block of run_backtest_task, then the except block
\* of AsyncTask.async_run, which records FAILURE and re-raises
task_handler ==
  /\ pc = "handler"
  /\ WriteStatus("failed")
  /\ raised' = reraise(exc)
  /\ celery_state' = "FAILURE"
  /\ pc' = "done"
  /\ UNCHANGED << results, date_range, task_locals, exc, ret, files, trace >>
  /\ UNCHANGED << worker, verifier, parser, caller, jobs >>

Next ==
  \/ create_backtest
  \/ AsyncTask_call
  \/ task_begin
  \/ download_precheck
  \/ download_compose_run
  \/ run_docker_command_exit
  \/ download_postcheck
  \/ task_check_download
  \/ run_backtest_compose_run
  \/ run_backtest_resolve
  \/ cleanup_results
  \/ task_finish
  \/ task_handler

Spec == Init /\ [][Next]_vars

TypeOK ==
  /\ status \in {"absent", "queued", "downloading_data", "running", "finished", "failed"}
  /\ pc \in {"request", "queued", "start", "download", "dl_compose_run", "dl_docker_exit",
             "dl_verify", "check_download", "run_backtest", "bt_docker_exit",
             "bt_resolve", "cleanup", "finish", "handler", "done", "raised", "returned"}
  /\ DOMAIN logs_dir \subseteq 1..uuid_ctr

\* ------------------------------------------------ worker execution context
\* One worker process runs the queued tasks one after another in its main
\* thread; correlation_id is a ContextVar (util/logger.py) with default "".
pipeline == << status, results, writes, pc, date_range, expected_files,
               download_result, log_summary, log_file, command, docker_out, exc,
               ret, raised, celery_state, backtest_results, disk, logs_dir,
               results_dir, uuid_ctr, temp_dirs, trace >>

\* set_correlation_id(new_id): the value the ContextVar holds afterwards
set_correlation_id(current, new_id) == new_id

\* AsyncTask.__call__: a truthy correlation_id keyword is set in the calling
\* (worker) context, then the coroutine is handed to loop.run_until_complete
AsyncTask___call__ ==
  /\ wpc = "idle"
  /\ Len(executed) < MaxTasks
  /\ \E cid \in Cids :
       /\ kwargs_cid' = cid
       /\ correlation_id' = IF cid # "" THEN set_correlation_id(correlation_id, cid)
                            ELSE correlation_id
  /\ wpc' = "called"
  /\ UNCHANGED << task_ctx, executed, pipeline, verifier, parser, caller, jobs >>

\* AsyncTask.async_run: the asyncio task starts with a copy of the caller's
\* context; a truthy correlation_id keyword is set again inside the copy
async_run ==
  /\ wpc = "called"
  /\ task_ctx' = IF kwargs_cid # "" THEN set_correlation_id(correlation_id, kwargs_cid)
                 ELSE correlation_id
  /\ wpc' = "body"
  /\ UNCHANGED << correlation_id, kwargs_cid, executed, pipeline, verifier, parser, caller, jobs >>

\* the body of run_backtest_task runs and logs with get_correlation_id();
\* it returns or raises, the context copy is dropped, the worker is idle
run_backtest_task_body ==
  /\ wpc = "body"
  /\ \E outcome \in {"returned", "raised"} :
       executed' = Append(executed, [given |-> kwargs_cid, seen |-> task_ctx,
                                     outcome |-> outcome])
  /\ wpc' = "idle"
  /\ UNCHANGED << correlation_id, task_ctx, kwargs_cid, pipeline, verifier, parser, caller, jobs >>

WorkerNext ==
  \/ AsyncTask___call__
  \/ async_run
  \/ run_backtest_task_body

WorkerInit ==
  /\ Init
  /\ disk = [f \in DataFiles |-> NoFile]
  /\ results_dir = NoBundles

SpecWorker == WorkerInit /\ [][WorkerNext]_vars

\* ------------------------------------------------ verification of a download
\* One call of DataDownloadVerifier.verify_download as FTMarketData.download
\* makes it: the manifest is generated from pairs, timeframes and trading
\* mode, then verified against what the data root holds.
VerifyPairs == { << "BTC/USDT" >> }
VerifyTimeframes == { << "1h" >> }
VerifyModes == { "spot", "futures" }
VerifyDateRanges == { "20240101-20240102", "20240101-20240101", "2024-01-01" }

\* LogSummary values run_docker_command can hand over, and None
VerifyDockerResults == { NoSummary } \cup { process_log_file(c) : c \in LogContents }

\* contents the candle file of the requested timeframe can have
FrameChoices ==
  FileStates \cup
  { Unreadable,
    Frame(required_columns \ {"volume"}, Hourly(0, 48)),
    Frame(required_columns, Hourly(0, 20)),
    Frame(required_columns, Hourly(0, 24)),
    Frame(required_columns, Hourly(0, 24) \o Hourly(27, 24)),
    Frame(required_columns, Hourly(0, 22) \o Hourly(0, 22) \o Hourly(44, 4)),
    Frame(required_columns, Hourly(0, 24) \o Hourly(25, 24)),
    Frame(required_columns, Hourly(0 - 1, 49)),
    Frame(required_columns, Hourly(0 - 100, 1) \o Hourly(0, 48)),
    Frame(required_columns, Hourly(24, 24) \o Hourly(0, 24)) }

\* data roots holding the files of a manifest
DataRoots(manifest) ==
  LET paths == Range(JoinAll(base_dir, manifest))
  IN { d \in [paths -> FrameChoices] :
         \A p \in paths : p.kind \in {"mark", "funding_rate"} => d[p] \in FileStates }

VerifyInit ==
  /\ PipelineInit
  /\ disk = [f \in DataFiles |-> NoFile]
  /\ results_dir = NoBundles
  /\ WorkerIdle
  /\ ParserIdle
  /\ CallerIdle
  /\ JobsIdle
  /\ verify_args \in
       [ pairs : VerifyPairs, timeframes : VerifyTimeframes, trading_mode : VerifyModes,
         date_range : VerifyDateRanges, docker_result : VerifyDockerResults,
         expected_files : { << >> } ]
  /\ data_root = << >>
  /\ verify_run = NoRun
  /\ verify_rerun = NoRun
  /\ vpc = "args"

\* FTMarketData.download: the manifest of the request; the data root holds
\* some content for each of its files
generate_manifest ==
  /\ vpc = "args"
  /\ LET ef == generate_expected_files(verify_args.pairs, verify_args.timeframes,
                                       verify_args.trading_mode)
     IN /\ verify_args' = [verify_args EXCEPT !.expected_files = ef]
        /\ data_root' \in DataRoots(ef)
  /\ vpc' = "manifest"
  /\ UNCHANGED << verify_run, verify_rerun, pipeline, worker, parser, caller, jobs >>

\* self.verifier.verify_download(docker_result, expected_files, date_range,
\* timeframes)
call_verify_download ==
  /\ vpc = "manifest"
  /\ verify_run' = VerifyRun(verify_args.docker_result, verify_args.expected_files,
                             verify_args.date_range, verify_args.timeframes, data_root)
  /\ data_root' = after_verification(data_root)
  /\ vpc' = "returned"
  /\ UNCHANGED << verify_args, verify_rerun, pipeline, worker, parser, caller, jobs >>

\* a second call with the same arguments, no download in between
call_verify_download_again ==
  /\ vpc = "returned"
  /\ verify_rerun' = VerifyRun(verify_args.docker_result, verify_args.expected_files,
                               verify_args.date_range, verify_args.timeframes, data_root)
  /\ data_root' = after_verification(data_root)
  /\ vpc' = "returned_again"
  /\ UNCHANGED << verify_args, verify_run, pipeline, worker, parser, caller, jobs >>

VerifyNext ==
  \/ generate_manifest
  \/ call_verify_download
  \/ call_verify_download_again

SpecVerify == VerifyInit /\ [][VerifyNext]_vars

\* ------------------------------------------------------- DockerLogParser
\* A raw line of container output by its shape: "entry" matches
\* LOG_LINE_PATTERN with a valid timestamp; "stamped" starts with a timestamp
\* but does not match the pattern; "text" has no leading timestamp.  The
\* message is the sequence of the texts joined by " ".
Line(kind, timestamp, component, level, text) ==
  [ kind |-> kind, timestamp |-> timestamp, component |-> component,
    level |-> level, message |-> << text >> ]

ParserLines ==
  { Line("entry", 2, "freqtrade", "ERROR", "boom"),
    Line("entry", 1, "freqtrade.data", "ERROR", "no data"),
    Line("entry", 1, "freqtrade", "WARNING", "careful"),
    Line("entry", 3, "freqtrade.misc", "INFO", "dumping json to"),
    Line("stamped", 2, "", "", "no separators"),
    Line("text", 0, "", "", "Traceback") }

RECURSIVE LinesUpTo(_)
LinesUpTo(n) ==
  IF n = 0 THEN { << >> }
  ELSE LET shorter == LinesUpTo(n - 1)
       IN shorter \cup { Append(t, l) : t \in { u \in shorter : Len(u) = n - 1 },
                                        l \in ParserLines }

\* TIMESTAMP_PATTERN.match(line)
starts_with_timestamp(line) == line.kind \in {"entry", "stamped"}

\* " ".join(current_lines) of the texts after the first line
RECURSIVE JoinTexts(_)
JoinTexts(lines) ==
  IF lines = << >> THEN << >> ELSE Head(lines).message \o JoinTexts(Tail(lines))

NoEntry == [none |-> TRUE]

\* parse_log_line on the joined lines: the pattern is matched from the start
\* of the first line and its message group takes all the rest
parse_log_line(current_lines) ==
  LET first == Head(current_lines)
  IN IF first.kind = "entry"
     THEN [ timestamp |-> first.timestamp, component |-> first.component,
            level |-> first.level, message |-> JoinTexts(current_lines) ]
     ELSE NoEntry

\* is_duplicate of _process_entry
is_duplicate(entry, entries) ==
  \E i \in DOMAIN entries :
    /\ entries[i].timestamp = entry.timestamp
    /\ entries[i].component = entry.component
    /\ entries[i].message = entry.message

\* DockerLogParser._process_entry: warnings and errors are appended in
\* arrival order unless already present; other levels are dropped
process_entry(sum, entry) ==
  IF entry.level = "WARNING"
  THEN IF is_duplicate(entry, sum.warnings) THEN sum
       ELSE [sum EXCEPT !.warnings = Append(@, entry), !.total_warnings = @ + 1]
  ELSE IF entry.level = "ERROR"
  THEN IF is_duplicate(entry, sum.errors) THEN sum
       ELSE [sum EXCEPT !.errors = Append(@, entry), !.total_errors = @ + 1]
  ELSE sum

\* the flush of current_lines in process_lines
flush(sum, current_lines) ==
  IF current_lines = << >> THEN sum
  ELSE LET entry == parse_log_line(current_lines)
       IN IF entry = NoEntry THEN sum ELSE process_entry(sum, entry)

\* process_lines: a line starting with a timestamp closes the lines
\* collected so far and opens a new entry, any other line continues it
RECURSIVE process_lines(_, _, _)
process_lines(sum, lines, current_lines) ==
  IF lines = << >> THEN flush(sum, current_lines)
  ELSE IF starts_with_timestamp(Head(lines))
       THEN process_lines(flush(sum, current_lines), Tail(lines), << Head(lines) >>)
       ELSE process_lines(sum, Tail(lines), Append(current_lines, Head(lines)))

ParserInit ==
  /\ PipelineInit
  /\ disk = [f \in DataFiles |-> NoFile]
  /\ results_dir = NoBundles
  /\ WorkerIdle
  /\ VerifierIdle
  /\ CallerIdle
  /\ JobsIdle
  /\ docker_output \in [stderr : LinesUpTo(MaxLines), stdout : LinesUpTo(MaxLines)]
  /\ parser_summary = NoDockerLogSummary
  /\ ppc = "called"

\* process_docker_output: the summary is reset and stderr is processed first
process_stderr ==
  /\ ppc = "called"
  /\ parser_summary' = process_lines(NoDockerLogSummary, docker_output.stderr, << >>)
  /\ ppc' = "stderr_done"
  /\ UNCHANGED << docker_output, pipeline, worker, verifier, caller, jobs >>

\* process_docker_output: then stdout, and the summary is returned
process_stdout ==
  /\ ppc = "stderr_done"
  /\ parser_summary' = process_lines(parser_summary, docker_output.stdout, << >>)
  /\ ppc' = "returned"
  /\ UNCHANGED << docker_output, pipeline, worker, verifier, caller, jobs >>

ParserNext ==
  \/ process_stderr
  \/ process_stdout

SpecParser == ParserInit /\ [][ParserNext]_vars

\* ------------------------------------------------- direct calls of the API
\* One call of FTMarketData.download or of FTBacktesting.run_backtest with
\* arguments of the caller's choice, on any state of the data files and of
\* the results folder.
CallPairs == { << >>, << "BTC/USDT:USDT" >> }
CallTimeframes == { << >>, << StrategyTimeframe >> }
CallArgs ==
  [ method : { "download" }, pairs : CallPairs, timeframes : CallTimeframes,
    date_range : DateRanges ]
  \cup [ method : { "run_backtest" }, strategy_file : StrategyFiles,
         strategies_dir : StrategiesDirs, date_range : DateRanges ]

CallInit ==
  /\ PipelineInit
  /\ WorkerIdle
  /\ VerifierIdle
  /\ ParserIdle
  /\ call_args \in CallArgs
  /\ call_result = NoCall
  /\ JobsIdle

call_download ==
  /\ pc = "request"
  /\ call_args.method = "download"
  /\ download_begin(call_args.pairs, call_args.timeframes, call_args.date_range,
                    "raised", "returned")
  /\ UNCHANGED << db, date_range, log_summary, log_file, docker_out, ret, raised,
                  celery_state, backtest_results, files >>
  /\ UNCHANGED << worker, verifier, parser, caller, jobs >>

call_run_backtest ==
  /\ pc = "request"
  /\ call_args.method = "run_backtest"
  /\ run_backtest_begin(call_args.strategy_file, call_args.strategies_dir,
                        call_args.date_range, "raised")
  /\ UNCHANGED << db, date_range, expected_files, download_result, log_summary,
                  ret, raised, celery_state, backtest_results, disk, temp_dirs >>
  /\ UNCHANGED << worker, verifier, parser, caller, jobs >>

CallNext ==
  \/ call_download
  \/ call_run_backtest

SpecCalls == CallInit /\ [][CallNext]_vars

\* ------------------------------------------- direct calls of TimeframeUtils
\* One call of calculate_expected_candles or of find_gaps; times are seconds
\* since 2024-01-01 00:00:00.
MaxRows == 3
CallTimes == { 0, 1800, 3600, 7200, 10800, 12600, 14400, 86400 + 86399 }
RowTimes == { 0, 3600, 7200, 10800, 12600, 18000 }
CallTimeframeNames == DOMAIN TIMEFRAME_MAP \cup { "7m", "" }
RowTimeframes == { "1h", "30m", "7m" }

RECURSIVE RowsUpTo(_)
RowsUpTo(n) ==
  IF n = 0 THEN { << >> }
  ELSE LET shorter == RowsUpTo(n - 1)
       IN shorter \cup { Append(t, x) : t \in { u \in shorter : Len(u) = n - 1 },
                                        x \in RowTimes }

UtilArgs ==
  [ method : { "calculate_expected_candles" }, start_date : CallTimes,
    end_date : CallTimes, timeframe : CallTimeframeNames ]
  \cup [ method : { "find_gaps" }, dates : RowsUpTo(MaxRows), timeframe : RowTimeframes ]

UtilInit ==
  /\ PipelineInit
  /\ disk = [f \in DataFiles |-> NoFile]
  /\ results_dir = NoBundles
  /\ WorkerIdle
  /\ VerifierIdle
  /\ ParserIdle
  /\ call_args \in UtilArgs
  /\ call_result = NoCall
  /\ JobsIdle

call_calculate_expected_candles ==
  /\ call_result = NoCall
  /\ call_args.method = "calculate_expected_candles"
  /\ call_result' = calculate_expected_candles(call_args.start_date, call_args.end_date,
                                               call_args.timeframe)
  /\ UNCHANGED << call_args, pipeline, worker, verifier, parser, jobs >>

call_find_gaps ==
  /\ call_result = NoCall
  /\ call_args.method = "find_gaps"
  /\ call_result' = find_gaps(call_args.dates, call_args.timeframe)
  /\ UNCHANGED << call_args, pipeline, worker, verifier, parser, jobs >>

UtilNext ==
  \/ call_calculate_expected_candles
  \/ call_find_gaps

SpecUtils == UtilInit /\ [][UtilNext]_vars

\* ------------------------------------------------ concurrent jobs of a user
\* Two run_backtest_task executions for the same user run in different
\* workers.  They share the data files, the user's logs directory and the
\* user's backtest results folder; every FTMarketData / FTBacktesting object
\* is built from the clerk_id alone.  Each step below is one step of one job.
Jobs == { "job1", "job2" }
JobPairs == << "BTC/USDT:USDT" >>
JobDateRange == "20240101-20240102"

\* the bundle the backtesting command of a job writes, as its log names it
bundle_name == ("job1" :> "backtest-result-A") @@ ("job2" :> "backtest-result-B")

\* the part of the pipeline state that concurrent jobs do not use
job_unused == << status, results, writes, pc, date_range, expected_files,
                 download_result, log_summary, log_file, command, docker_out,
                 exc, ret, raised, celery_state, backtest_results, temp_dirs, trace >>

JobsInit ==
  /\ PipelineInit
  /\ results_dir = NoBundles
  /\ WorkerIdle
  /\ VerifierIdle
  /\ ParserIdle
  /\ CallerIdle
  /\ jpc = [j \in Jobs |-> "download"]
  /\ jlog = [j \in Jobs |-> 0]
  /\ jnames = [j \in Jobs |-> << >>]
  /\ jparsed = [j \in Jobs |-> << >>]
  /\ jexc = [j \in Jobs |-> "none"]
  /\ jtrace = [j \in Jobs |-> << >>]

\* mutant: a download is admitted only while no other job is downloading
download_admitted_mut(j) ==
  \A k \in Jobs \ { j } : jpc[k] \notin { "dl_compose_run", "dl_docker_exit", "dl_verify" }

\* FTMarketData.download takes no lock and consults no other job between
\* its pre-download verification and the download command
download_admitted(j) == TRUE

\* FTMarketData.download of job j up to the pre-download verification
job_download_precheck(j) ==
  /\ jpc[j] = "download"
  /\ download_admitted(j)
  /\ \E r \in { verify_download(NoSummary,
                    generate_expected_files(JobPairs, << StrategyTimeframe >>, "futures"),
                    JobDateRange, << StrategyTimeframe >>, disk) } :
       /\ jtrace' = [jtrace EXCEPT ![j] =
                       Append(@, IF r.success THEN "verify_pre_ok" ELSE "verify_pre_failed")]
       /\ jpc' = [jpc EXCEPT ![j] = IF skip_download(r) THEN "run_backtest"
                                    ELSE "dl_compose_run"]
  /\ UNCHANGED << jlog, jnames, jparsed, jexc, disk, logs_dir, results_dir, uuid_ctr >>
  /\ UNCHANGED << job_unused, worker, verifier, parser, caller >>

\* mutant: every invocation uses the same log artifact name
uuid4_mut(drawn) == 1

\* uuid.uuid4(): a value no earlier call returned
uuid4(drawn) == drawn + 1

\* FTBase.run_docker_command of job j, up to the container run: the log
\* artifact name is attached and the container writes its log under it
job_compose_run(j) ==
  /\ uuid_ctr' = uuid_ctr + 1
  /\ jlog' = [jlog EXCEPT ![j] = uuid4(uuid_ctr)]
  /\ jnames' = [jnames EXCEPT ![j] = Append(@, uuid4(uuid_ctr))]
  /\ logs_dir' = (uuid4(uuid_ctr) :> [writer |-> j]) @@ logs_dir

\* the download-data container of job j: it leaves the data as it was or
\* complete
job_download_run(j) ==
  /\ jpc[j] = "dl_compose_run"
  /\ job_compose_run(j)
  /\ disk' \in { disk, [f \in DataFiles |-> FullFrame] }
  /\ jtrace' = [jtrace EXCEPT ![j] = Append(@, "docker_download")]
  /\ jpc' = [jpc EXCEPT ![j] = "dl_docker_exit"]
  /\ UNCHANGED << jparsed, jexc, results_dir >>
  /\ UNCHANGED << job_unused, worker, verifier, parser, caller >>

\* FTBase.run_docker_command of job j after the container returned:
\* process_log_file on its artifact, which raises when the file is gone,
\* then os.remove of the artifact
job_docker_exit(j) ==
  /\ jpc[j] \in { "dl_docker_exit", "bt_docker_exit" }
  /\ IF jlog[j] \in DOMAIN logs_dir
     THEN /\ jparsed' = [jparsed EXCEPT ![j] = Append(@, logs_dir[jlog[j]].writer)]
          /\ logs_dir' = remove_log(logs_dir, jlog[j])
          /\ jpc' = [jpc EXCEPT ![j] = IF @ = "dl_docker_exit" THEN "dl_verify"
                                       ELSE "bt_resolve"]
          /\ jexc' = jexc
     ELSE /\ jexc' = [jexc EXCEPT ![j] = "FileNotFoundError"]
          /\ jpc' = [jpc EXCEPT ![j] = "failed"]
          /\ UNCHANGED << jparsed, logs_dir >>
  /\ UNCHANGED << jlog, jnames, jtrace, disk, results_dir, uuid_ctr >>
  /\ UNCHANGED << job_unused, worker, verifier, parser, caller >>

\* FTMarketData.download of job j: verification after the download, on a
\* log without error entries
job_download_postcheck(j) ==
  /\ jpc[j] = "dl_verify"
  /\ \E r \in { verify_download(process_log_file(<< >>),
                    generate_expected_files(JobPairs, << StrategyTimeframe >>, "futures"),
                    JobDateRange, << StrategyTimeframe >>, disk) } :
       /\ jtrace' = [jtrace EXCEPT ![j] = Append(@, "verify_post")]
       /\ jpc' = [jpc EXCEPT ![j] = IF download_failed(r) THEN "failed" ELSE "run_backtest"]
  /\ UNCHANGED << jlog, jnames, jparsed, jexc, disk, logs_dir, results_dir, uuid_ctr >>
  /\ UNCHANGED << job_unused, worker, verifier, parser, caller >>

\* FTBacktesting.run_backtest of job j up to the container run: the
\* backtesting command writes the job's bundle into the results folder
job_backtest_run(j) ==
  /\ jpc[j] = "run_backtest"
  /\ job_compose_run(j)
  /\ results_dir' = (bundle_name[j] :> "good") @@ results_dir
  /\ jtrace' = [jtrace EXCEPT ![j] = Append(@, "docker_backtesting")]
  /\ jpc' = [jpc EXCEPT ![j] = "bt_docker_exit"]
  /\ UNCHANGED << jparsed, jexc, disk >>
  /\ UNCHANGED << job_unused, worker, verifier, parser, caller >>

\* FTBacktestParser(folder, result_name) and parse_zip of job j: the
\* constructor raises FileNotFoundError when the ZIP is not in the folder
job_parse_bundle(j) ==
  /\ jpc[j] = "bt_resolve"
  /\ IF bundle_name[j] \in DOMAIN results_dir
     THEN /\ jtrace' = [jtrace EXCEPT ![j] = Append(@, "parse_zip")]
          /\ jpc' = [jpc EXCEPT ![j] = "cleanup"]
          /\ jexc' = jexc
     ELSE /\ jexc' = [jexc EXCEPT ![j] = "FileNotFoundError"]
          /\ jpc' = [jpc EXCEPT ![j] = "failed"]
          /\ jtrace' = jtrace
  /\ UNCHANGED << jlog, jnames, jparsed, disk, logs_dir, results_dir, uuid_ctr >>
  /\ UNCHANGED << job_unused, worker, verifier, parser, caller >>

\* shutil.rmtree(self.local_backtest_results_folder): the folder goes with
\* everything in it, whichever job wrote it
rmtree_results(folder) == NoBundles

\* FTBacktesting.cleanup_results of job j
job_cleanup_results(j) ==
  /\ jpc[j] = "cleanup"
  /\ results_dir' = rmtree_results(results_dir)
  /\ jtrace' = [jtrace EXCEPT ![j] = Append(@, "cleanup_results")]
  /\ jpc' = [jpc EXCEPT ![j] = "finished"]
  /\ UNCHANGED << jlog, jnames, jparsed, jexc, disk, logs_dir, uuid_ctr >>
  /\ UNCHANGED << job_unused, worker, verifier, parser, caller >>

JobsNext ==
  \E j \in Jobs :
    \/ job_download_precheck(j)
    \/ job_download_run(j)
    \/ job_docker_exit(j)
    \/ job_download_postcheck(j)
    \/ job_backtest_run(j)
    \/ job_parse_bundle(j)
    \/ job_cleanup_results(j)

SpecJobs == JobsInit /\ [][JobsNext]_vars

\* ================================================================ properties
Count(seq, x) == Cardinality({ i \in DOMAIN seq : seq[i] = x })
InTrace(x) == \E i \in DOMAIN trace : trace[i] = x
Rank(s) ==
  CASE s = "queued" -> 0
    [] s = "downloading_data" -> 1
    [] s = "running" -> 2
    [] OTHER -> 3

\* C1: the persisted status only moves forward along
\* queued -> downloading_data -> running -> {finished | failed}: the job is
\* created in queued, every status write goes to a later state of this
\* order, and the job is never in running before it was in downloading_data.
C1_StatusOnlyMovesForward ==
  /\ (writes # << >> => writes[1] = "queued")
  /\ \A i \in 1..(Len(writes) - 1) : Rank(writes[i]) < Rank(writes[i + 1])
  /\ \A i \in DOMAIN writes :
       writes[i] = "running" => \E k \in 1..(i - 1) : writes[k] = "downloading_data"

\* C2: the backtesting command is invoked only after FTMarketData.download
\* returned a successful VerificationResult in the same run; once download
\* returned a failed result the job is failed and the backtesting command is
\* never invoked.
C2_BacktestOnlyOnVerifiedData ==
  /\ \A i \in DOMAIN trace :
       trace[i] = "docker_backtesting" =>
         /\ download_result.success
         /\ \E k \in 1..(i - 1) : trace[k] \in {"verify_pre_ok", "verify_post"}
  /\ (download_result # NoResult /\ ~ download_result.success /\ pc # "check_download") =>
       /\ status = "failed"
       /\ pc = "done"
       /\ ~ InTrace("docker_backtesting")

C2_Witness ==
  /\ InTrace("verify_post")
  /\ InTrace("docker_backtesting")
  /\ pc = "done"

\* the summary of the backtesting container's log, once that container
\* returned normally
BacktestLogParsed ==
  /\ InTrace("docker_backtesting")
  /\ trace[Len(trace)] = "returned"

\* C3: if the backtesting command completes with no error entries in its
\* log and the log holds no freqtrade.misc "dumping json to" entry, the job
\* ends in failed with a result-not-located error and never in finished.
C3_SilentSuccessIsFailure ==
  ( /\ pc = "done"
    /\ BacktestLogParsed
    /\ log_summary.errors = << >>
    /\ \A i \in DOMAIN log_summary.entries :
         ~ ( /\ log_summary.entries[i].name = "freqtrade.misc"
             /\ log_summary.entries[i].message = "dumping json to" ) )
  => ( /\ status = "failed"
       /\ raised # NoExc )

\* C4: whenever an error is raised in the download, verification or
\* backtest stage, the status failed is written exactly once and the same
\* error leaves the task.
C4_ErrorRecordedOnceAndReraised ==
  /\ (pc = "handler" => exc # NoExc /\ Count(writes, "failed") = 0)
  /\ (pc = "done" /\ exc # NoExc) =>
       /\ status = "failed"
       /\ Count(writes, "failed") = 1
       /\ raised = exc
       /\ celery_state = "FAILURE"
       /\ ret = NoRet

C4_Witness ==
  /\ pc = "done"
  /\ exc.type = "PickleableDockerException"
  /\ raised = exc
  /\ InTrace("docker_backtesting")

\* C5: finished and failed are terminal: once the persisted status is
\* finished or failed no later step of the run changes it.
C5_TerminalStatusesStay ==
  [][(status \in {"finished", "failed"}) => (status' = status)]_vars

C5_Witness ==
  /\ pc = "done"
  /\ status = "failed"
  /\ ret.state = "failure"

\* FTMarketData.download has returned or raised after its pre-check ran
DownloadExited ==
  /\ InTrace("verify_pre_ok") \/ InTrace("verify_pre_failed")
  /\ pc \in {"check_download", "run_backtest", "bt_docker_exit", "bt_resolve",
             "cleanup", "finish", "handler", "done"}

\* run_docker_command returned a summary to FTMarketData.download
DownloadCommandReturned ==
  \E i \in DOMAIN trace :
    /\ trace[i] = "docker_download"
    /\ i + 2 <= Len(trace)
    /\ trace[i + 2] = "returned"

\* C6 as stated: the download command is invoked iff the pre-download
\* verification failed; after a successful pre-check no container command
\* runs and that result is returned; otherwise the command runs exactly once
\* and is followed by exactly one post-download verification.
C6_DownloadIffPrecheckFailed ==
  DownloadExited =>
    /\ InTrace("verify_pre_ok") =>
         /\ Count(trace, "docker_download") = 0
         /\ Count(trace, "verify_post") = 0
         /\ download_result.success
         /\ download_result.verified_files = JoinAll(base_dir, expected_files)
    /\ InTrace("verify_pre_failed") =>
         /\ Count(trace, "docker_download") = 1
         /\ Count(trace, "verify_post") = 1

\* C6 amended: as C6, but the post-download verification runs exactly once
\* only when run_docker_command returned; when it raised, the error leaves
\* download and no post-download verification runs.
C6_DownloadIffPrecheckFailed_Amended ==
  /\ InTrace("docker_download") => InTrace("verify_pre_failed")
  /\ DownloadExited =>
       /\ InTrace("verify_pre_ok") =>
            /\ Count(trace, "docker_download") = 0
            /\ Count(trace, "verify_post") = 0
            /\ download_result.success
            /\ download_result.verified_files = JoinAll(base_dir, expected_files)
       /\ InTrace("verify_pre_failed") =>
            /\ Count(trace, "docker_download") = 1
            /\ Count(trace, "verify_post") = (IF DownloadCommandReturned THEN 1 ELSE 0)
            /\ DownloadCommandReturned => trace[5] = "verify_post"
            /\ ~ DownloadCommandReturned => exc # NoExc /\ download_result = NoResult

C6_Witness ==
  /\ pc = "check_download"
  /\ InTrace("verify_pre_failed")
  /\ InTrace("docker_download")
  /\ InTrace("verify_post")

\* C7: whether the container run succeeds or fails, the log artifact is
\* parsed and deleted before run_docker_command returns or raises: outside a
\* running command the artifact it attached does not exist.
C7_LogArtifactRemovedOnExit ==
  /\ pc \notin {"dl_docker_exit", "bt_docker_exit"} => log_file \notin DOMAIN logs_dir
  /\ pc \in {"dl_docker_exit", "bt_docker_exit"} => log_file \in DOMAIN logs_dir
  /\ \A i \in DOMAIN trace :
       trace[i] \in {"returned", "raised"} => i > 1 /\ trace[i - 1] = "log_parsed"

C7_Witness ==
  /\ pc = "handler"
  /\ trace # << >>
  /\ trace[Len(trace)] = "raised"
  /\ log_file > 0
  /\ log_file \notin DOMAIN logs_dir

\* C8: when the container run fails, run_docker_command raises a
\* PickleableDockerException carrying command, exit code, stdout and stderr,
\* whose message comes from the first error entry of the parsed log, or is a
\* generic fallback when the parsed log has no error entry.
C8_StructuredExecutionError ==
  (pc = "handler" /\ trace # << >> /\ trace[Len(trace)] = "raised") =>
    /\ exc.type = "PickleableDockerException"
    /\ exc.command = command
    /\ exc.exit_code = docker_out.return_code
    /\ exc.stdout = docker_out.stdout
    /\ exc.stderr = docker_out.stderr
    /\ exc.message = IF log_summary.errors # << >>
                     THEN << log_summary.errors[1].name, log_summary.errors[1].message >>
                     ELSE << "docker", "Docker command failed" >>

\* C9: run_backtest_task returns a result envelope only when the job ended
\* in finished; whenever the job ends in failed the task does not return
\* normally and the exception reaches the task framework.
C9_EnvelopeOnlyOnFinished ==
  pc = "done" =>
    /\ ret # NoRet => status = "finished"
    /\ status = "failed" => (ret = NoRet /\ raised # NoExc /\ celery_state = "FAILURE")

\* C10: a supplied correlation id is in the execution context before the
\* task body runs, and a task given a different id, or none, never observes
\* the correlation id of another task run by the same worker.
C10_CorrelationIdIsolated ==
  \A i \in DOMAIN executed :
    /\ executed[i].given # "" => executed[i].seen = executed[i].given
    /\ executed[i].seen # executed[i].given =>
         ~ \E k \in 1..(i - 1) : executed[k].given = executed[i].seen

\* ---------------------------------------------- claims on the verifier
\* the call of verify_download has returned
Verified == vpc = "returned"
OnDisk(f) == data_root[JoinPath(base_dir, f)]
ManifestFiles == Range(verify_args.expected_files)
CalledOn(method, f) ==
  \E i \in DOMAIN verify_run.calls :
    verify_run.calls[i] = Call(method, JoinPath(base_dir, f))
HasDockerErrors ==
  /\ verify_args.docker_result # NoSummary
  /\ verify_args.docker_result.errors # << >>

\* C11: every VerificationResult returned by verify_download has an empty
\* verified_files when success is false, and a verified_files holding every
\* entry of the expected manifest (as a path under the base directory) when
\* success is true.
C11_VerifiedFilesMatchSuccess ==
  Verified =>
    /\ ~ verify_run.result.success => verify_run.result.verified_files = << >>
    /\ verify_run.result.success =>
         \A f \in ManifestFiles :
           JoinPath(base_dir, f) \in Range(verify_run.result.verified_files)

C11_Witness ==
  /\ Verified
  /\ verify_run.result.success
  /\ Len(verify_args.expected_files) = 3
  /\ Len(verify_run.result.verified_files) = 3

\* C12: if any file of the manifest is absent under the data root,
\* verify_download returns success = false whatever the other files hold,
\* and the FileVerificationError raised by verify_files_existence lists
\* exactly the missing manifest paths, all of them.
C12_MissingFilesFailAndAreAllListed ==
  (Verified /\ \E f \in ManifestFiles : ~ OnDisk(f).exists) =>
    /\ ~ verify_run.result.success
    /\ LET e == verify_files_existence(verify_args.expected_files, data_root)
       IN /\ e.raised
          /\ e.type = "FileVerificationError"
          /\ \A f \in ManifestFiles :
               ~ OnDisk(f).exists <=> f \in Range(e.details.missing_files)
          /\ ~ HasDockerErrors =>
               /\ verify_run.result.error_type = "FileVerificationError"
               /\ verify_run.result.error_message = e.message

C12_Witness ==
  /\ Verified
  /\ Cardinality({ f \in ManifestFiles : ~ OnDisk(f).exists }) = 2
  /\ \E f \in ManifestFiles : OnDisk(f) = FullFrame
  /\ verify_run.result.error_type = "FileVerificationError"

\* C13: verify_download runs its stages in order and short-circuits: with
\* an error entry in the supplied log summary the result is a failure
\* classified DockerExecutionError and neither the existence check nor any
\* integrity check was made; a log summary with only warnings never causes
\* the failure, the file checks decide.
C13_StagesInOrderAndShortCircuit ==
  Verified =>
    /\ HasDockerErrors =>
         /\ ~ verify_run.result.success
         /\ verify_run.result.error_type = "DockerExecutionError"
         /\ verify_run.calls = << Call("verify_docker_execution", NoPath) >>
    /\ ~ HasDockerErrors =>
         /\ verify_run.result.error_type # "DockerExecutionError"
         /\ \E i \in DOMAIN verify_run.calls :
              verify_run.calls[i].method = "verify_files_existence"
    /\ \A i, k \in DOMAIN verify_run.calls :
         i < k =>
           /\ verify_run.calls[k].method # "verify_docker_execution"
           /\ verify_run.calls[k].method = "verify_files_existence" =>
                verify_run.calls[i].method = "verify_docker_execution"
    /\ (\E f \in ManifestFiles : ~ OnDisk(f).exists) =>
         \A i \in DOMAIN verify_run.calls :
           verify_run.calls[i].method # "verify_data_integrity"

C13_Witness ==
  /\ Verified
  /\ verify_args.docker_result # NoSummary
  /\ verify_args.docker_result.warnings # << >>
  /\ verify_args.docker_result.errors = << >>
  /\ verify_run.result.success

\* the requested range parses and f is a file whose rows are counted
\* against it
RowsCounted(f) ==
  /\ CalledOn("verify_data_integrity", f)
  /\ TimeframeOf(verify_args.timeframes, f) # ""
  /\ ~ parse_date_range(verify_args.date_range).raised
  /\ OnDisk(f).readable
  /\ OnDisk(f).dates # << >>
  /\ required_columns \subseteq OnDisk(f).columns

expectedCandles(f) ==
  LET r == parse_date_range(verify_args.date_range).value
  IN calculate_expected_candles(r.start, r.end, TimeframeOf(verify_args.timeframes, f)).value

\* C14: for every manifest file checked with a date range and a timeframe,
\* fewer rows than expectedCandles for the parsed range is a hard failure:
\* verify_download returns success = false classified DataIntegrityError,
\* and no successful result carries such a file, with or without a warning.
C14_RowShortfallFailsHard ==
  Verified =>
    /\ \A f \in ManifestFiles :
         (RowsCounted(f) /\ Len(OnDisk(f).dates) < expectedCandles(f)) =>
           /\ ~ verify_run.result.success
           /\ verify_run.result.error_type = "DataIntegrityError"
           /\ verify_run.result.warnings = << >>
    /\ verify_run.result.success =>
         \A i \in DOMAIN verify_run.result.date_range_info :
           LET info == verify_run.result.date_range_info[i].info
           IN info.candles_found >= info.candles_expected

C14_Witness ==
  /\ Verified
  /\ verify_args.date_range = "20240101-20240102"
  /\ \E f \in ManifestFiles :
       /\ RowsCounted(f)
       /\ OnDisk(f) = Frame(required_columns, Hourly(0, 20))
  /\ verify_run.result.error_type = "DataIntegrityError"
  /\ verify_run.result.error_message = "Insufficient candles"

\* the scenario: pairs [BTC/USDT], timeframes [1h], spot, 20240101-20240102,
\* verified with no error entry in the log summary
Scenario ==
  /\ Verified
  /\ verify_args.pairs = << "BTC/USDT" >>
  /\ verify_args.timeframes = << "1h" >>
  /\ verify_args.trading_mode = "spot"
  /\ verify_args.date_range = "20240101-20240102"
  /\ ~ HasDockerErrors
ScenarioFile == Path("", "spot", "BTC_USDT", "1h", "spot")
FullCoverage(result, full_path) ==
  \E i \in DOMAIN result.date_range_info :
    /\ result.date_range_info[i].file = full_path
    /\ result.date_range_info[i].info.coverage_percentage.num
         = 100 * result.date_range_info[i].info.coverage_percentage.den

\* C15 as stated: in the scenario the manifest is the single file
\* BTC_USDT-1h-spot.feather under the spot directory, and if that file holds
\* 24 well-formed hourly rows with no gaps, verify_download returns success
\* with coverage_percentage = 100 for it.
C15_ScenarioTwentyFourRows ==
  Scenario =>
    /\ verify_args.expected_files = << ScenarioFile >>
    /\ OnDisk(ScenarioFile) = Frame(required_columns, Hourly(0, 24)) =>
         /\ verify_run.result.success
         /\ FullCoverage(verify_run.result, JoinPath(base_dir, ScenarioFile))

\* C15 amended: in the scenario the manifest is that single file; the range
\* runs to the end of its second day, so 48 hourly rows are expected: with
\* 48 well-formed hourly rows and no gaps verify_download returns success
\* with coverage_percentage = 100, and with 24 rows it returns a failure
\* classified DataIntegrityError.
C15_ScenarioFortyEightRows ==
  Scenario =>
    /\ verify_args.expected_files = << ScenarioFile >>
    /\ OnDisk(ScenarioFile) = Frame(required_columns, Hourly(0, 48)) =>
         /\ verify_run.result.success
         /\ FullCoverage(verify_run.result, JoinPath(base_dir, ScenarioFile))
         /\ verify_run.result.date_range_info[1].info.candles_expected = 48
         /\ verify_run.result.warnings = << >>
    /\ OnDisk(ScenarioFile) = Frame(required_columns, Hourly(0, 24)) =>
         /\ ~ verify_run.result.success
         /\ verify_run.result.error_type = "DataIntegrityError"

C15_Witness ==
  /\ Scenario
  /\ OnDisk(ScenarioFile) = Frame(required_columns, Hourly(0, 48))
  /\ verify_run.result.success

\* the hard checks of f: it exists, is a readable non-empty frame with the
\* required columns, and, when its rows are counted, has enough of them
HardChecksPass(f) ==
  /\ OnDisk(f).exists
  /\ OnDisk(f).readable
  /\ OnDisk(f).dates # << >>
  /\ required_columns \subseteq OnDisk(f).columns
  /\ TimeframeOf(verify_args.timeframes, f) # "" =>
       /\ ~ parse_date_range(verify_args.date_range).raised
       /\ Len(OnDisk(f).dates) >= expectedCandles(f)

HasWarning(kind, full_path) ==
  \E i \in DOMAIN verify_run.result.warnings :
    /\ verify_run.result.warnings[i].kind = kind
    /\ verify_run.result.warnings[i].file = full_path

RowsOutsideWindow(f) ==
  LET r == parse_date_range(verify_args.date_range).value
  IN \E i \in DOMAIN OnDisk(f).dates :
       OnDisk(f).dates[i] < r.start \/ OnDisk(f).dates[i] > r.end

\* C16: gaps found by the gap scan and data outside the requested window
\* never make verification fail: when the hard checks pass for every file
\* verify_download returns success, and each file with at least one gap or
\* with data outside the window contributes the corresponding warning.
C16_GapsAndExtraDataOnlyWarn ==
  (Verified /\ ~ HasDockerErrors /\ \A f \in ManifestFiles : HardChecksPass(f)) =>
    /\ verify_run.result.success
    /\ \A i \in DOMAIN verify_run.result.date_range_info :
         LET e == verify_run.result.date_range_info[i]
         IN /\ e.info.gaps # << >> => HasWarning("gaps", e.file)
            /\ e.info.has_extra_data => HasWarning("extra_data", e.file)
    /\ \A f \in ManifestFiles :
         TimeframeOf(verify_args.timeframes, f) # "" =>
           /\ RowsOutsideWindow(f) => HasWarning("extra_data", JoinPath(base_dir, f))
           /\ find_gaps(OnDisk(f).dates, TimeframeOf(verify_args.timeframes, f)).value # << >>
                => HasWarning("gaps", JoinPath(base_dir, f))

C16_Witness ==
  /\ Verified
  /\ verify_run.result.success
  /\ \E f \in ManifestFiles :
       /\ OnDisk(f) = Frame(required_columns, Hourly(0, 24) \o Hourly(27, 24))
       /\ HasWarning("gaps", JoinPath(base_dir, f))
       /\ HasWarning("extra_data", JoinPath(base_dir, f))

\* ------------------------------------------ claims on results and records
\* run_docker_command returned a summary to FTBacktesting.run_backtest
BacktestCommandReturned ==
  \E i \in DOMAIN trace :
    /\ trace[i] = "docker_backtesting"
    /\ i + 2 <= Len(trace)
    /\ trace[i + 2] = "returned"

\* C17: once the backtesting command has run, the temporary extraction
\* directory and the results directory are removed whatever the outcome of
\* locating, unzipping and parsing the bundle: at the end of the task no
\* temporary directory and no bundle is left.
C17_ResultArtifactsRemoved ==
  (pc = "done" /\ BacktestCommandReturned) =>
    /\ temp_dirs = {}
    /\ results_dir = NoBundles

\* the persisted row of the job, as a reader of the job obtains it
BacktestRecord == [date_range |-> date_range, status |-> status, results |-> results]

\* C18: when the job ends in failed because data verification failed, the
\* verifier's error classification and error message are on the job record.
C18_VerifierErrorPersisted ==
  (pc = "done" /\ status = "failed" /\ download_result # NoResult
     /\ ~ download_result.success) =>
    /\ \E column \in DOMAIN BacktestRecord :
         BacktestRecord[column] = download_result.error_type
    /\ \E column \in DOMAIN BacktestRecord :
         BacktestRecord[column] = download_result.error_message

\* ------------------------------------------------- claims on log parsing
\* the lines of both streams in reading order, and the well-formed ones
LinesRead == docker_output.stderr \o docker_output.stdout
WellFormedLines == { i \in DOMAIN LinesRead : LinesRead[i].kind = "entry" }
EntryOf(line) ==
  [ timestamp |-> line.timestamp, component |-> line.component,
    level |-> line.level, message |-> line.message ]

\* C19: for any input of N well-formed and M malformed lines in any order
\* the parser does not raise and the summary holds exactly N entries, the
\* entry of each well-formed line, unaffected by the malformed lines.
C19_ParsingIsolatesFaultsPerLine ==
  ppc = "returned" =>
    /\ Len(parser_summary.warnings) + Len(parser_summary.errors)
         = Cardinality(WellFormedLines)
    /\ \A i \in WellFormedLines :
         EntryOf(LinesRead[i]) \in
           Range(parser_summary.warnings) \cup Range(parser_summary.errors)

SortedByTimestamp(entries) ==
  \A i, k \in DOMAIN entries : i < k => entries[i].timestamp <= entries[k].timestamp

\* C20: after a full parse every severity list of the summary is sorted by
\* timestamp in non-decreasing order, whatever the arrival order of the
\* lines and their split between stderr and stdout.
C20_SeverityListsSortedByTimestamp ==
  ppc = "returned" =>
    /\ SortedByTimestamp(parser_summary.warnings)
    /\ SortedByTimestamp(parser_summary.errors)

\* ------------------------------------------------- claims on direct calls
EmptyDownloadInput ==
  /\ call_args.method = "download"
  /\ \/ call_args.pairs = << >>
     \/ call_args.timeframes = << >>
     \/ call_args.date_range = ""

EmptyBacktestInput ==
  /\ call_args.method = "run_backtest"
  /\ \/ call_args.strategy_file = ""
     \/ call_args.strategy_file \notin call_args.strategies_dir
     \/ call_args.date_range = ""

\* C21: download called with an empty pairs list, timeframes list or date
\* range raises before any verification, container command or file change,
\* and run_backtest called with an empty or non-existent strategy file or an
\* empty date range raises before any container command is run.
C21_EmptyInputFailsFast ==
  [][ /\ EmptyDownloadInput =>
           /\ pc' = "raised"
           /\ exc'.type = "ValueError"
           /\ UNCHANGED << trace, command, expected_files, download_result, files >>
      /\ EmptyBacktestInput =>
           /\ pc' = "raised"
           /\ exc'.type = "ValueError"
           /\ UNCHANGED << trace, command, log_file, logs_dir, uuid_ctr >> ]_vars

C21_Witness ==
  /\ pc = "raised"
  /\ call_args.method = "download"
  /\ call_args.pairs # << >>
  /\ call_args.timeframes = << >>
  /\ call_args.date_range # ""
  /\ exc.message = "Timeframes list cannot be empty"
  /\ trace = << >>

\* ------------------------------------------------- claims on TimeframeUtils
\* the duration of a supported timeframe in seconds, from its count and unit
Minute == 60
Hour == 60 * Minute
Day == 24 * Hour
duration ==
  [ tf \in { "1m", "3m", "5m", "15m", "30m", "1h", "2h", "4h", "6h", "8h", "12h",
             "1d", "3d", "1w", "1M" } |->
      CASE tf = "1m" -> Minute [] tf = "3m" -> 3 * Minute [] tf = "5m" -> 5 * Minute
        [] tf = "15m" -> 15 * Minute [] tf = "30m" -> 30 * Minute
        [] tf = "1h" -> Hour [] tf = "2h" -> 2 * Hour [] tf = "4h" -> 4 * Hour
        [] tf = "6h" -> 6 * Hour [] tf = "8h" -> 8 * Hour [] tf = "12h" -> 12 * Hour
        [] tf = "1d" -> Day [] tf = "3d" -> 3 * Day [] tf = "1w" -> 7 * Day
        [] tf = "1M" -> 30 * Day ]

\* floor(delta / d) for delta >= 0 and d > 0
Floor(delta, d) == CHOOSE n \in 0..delta : n * d <= delta /\ delta < (n + 1) * d

\* C22: for every supported timeframe and start <= end,
\* calculate_expected_candles is floor((end - start) / duration) + 1, both
\* endpoints counted (00:00 to 03:00 at 1h gives 4); an unsupported timeframe
\* raises an invalid-timeframe error instead of returning a count.
C22_ExpectedCandlesFormula ==
  (call_args.method = "calculate_expected_candles" /\ call_result # NoCall) =>
    /\ (call_args.timeframe \in DOMAIN duration
          /\ call_args.start_date <= call_args.end_date) =>
         /\ ~ call_result.raised
         /\ call_result.value =
              Floor(call_args.end_date - call_args.start_date,
                    duration[call_args.timeframe]) + 1
    /\ call_args.timeframe \notin DOMAIN duration =>
         /\ call_result.raised
         /\ call_result.message = "Invalid timeframe format"
    /\ (call_args.start_date = 0 /\ call_args.end_date = 3 * Hour
          /\ call_args.timeframe = "1h") => call_result = Returned(4)

C22_Witness ==
  /\ call_args.method = "calculate_expected_candles"
  /\ call_args.start_date = 0
  /\ call_args.end_date = 3 * Hour
  /\ call_args.timeframe = "1h"
  /\ call_result = Returned(4)

\* the timestamps of a frame in time order, and the candles missing between
\* the i-th and the next one: floor(delta / duration) - 1
InTimeOrder(dates) ==
  CHOOSE s \in [1..Len(dates) -> Range(dates)] :
    /\ \A i \in 1..(Len(dates) - 1) : s[i] <= s[i + 1]
    /\ \A t \in Range(dates) : Count(s, t) = Count(dates, t)
MissingAfter(series, i, d) == Floor(series[i + 1] - series[i], d) - 1
minGapSize == min_gap_size

\* C23: find_gaps reports (gapStart, gapEnd, missingCount) for a pair of
\* consecutive timestamps exactly when floor(delta / duration) - 1 >=
\* minGapSize, with missingCount equal to that value, in series order; with
\* minGapSize = 2 a single missing candle is never reported.
C23_GapsReportedFromThreshold ==
  (call_args.method = "find_gaps" /\ call_result # NoCall
     /\ call_args.timeframe \in DOMAIN duration) =>
    LET series == InTimeOrder(call_args.dates)
        d == duration[call_args.timeframe]
        reported == { i \in 1..(Len(series) - 1) : MissingAfter(series, i, d) >= minGapSize }
        gaps == call_result.value
    IN /\ ~ call_result.raised
       /\ Len(gaps) = Cardinality(reported)
       /\ \A k \in DOMAIN gaps :
            LET i == CHOOSE j \in reported :
                       Cardinality({ l \in reported : l < j }) = k - 1
            IN /\ gaps[k].start_date = series[i]
               /\ gaps[k].end_date = series[i + 1]
               /\ gaps[k].missing_candles = MissingAfter(series, i, d)
       /\ \A k \in DOMAIN gaps : gaps[k].missing_candles >= 2

\* a frame with one missing candle and then two missing candles at 1h: only
\* the second gap is reported
C23_Witness ==
  /\ call_args.method = "find_gaps"
  /\ call_args.timeframe = "1h"
  /\ call_args.dates = << 0, 7200, 18000 >>
  /\ call_result = Returned(<< [start_date |-> 7200, end_date |-> 18000,
                                missing_candles |-> 2] >>)

RECURSIVE MissingInFirst(_, _)
MissingInFirst(gaps, n) ==
  IF n = 0 THEN 0 ELSE MissingInFirst(gaps, n - 1) + gaps[n].missing_candles
totalMissingFromGaps(gaps) == MissingInFirst(gaps, Len(gaps))

\* C25: for each verified file with a date range, coverage_percentage is
\* (expected - totalMissingFromGaps) / expected * 100, the sum being over the
\* reported gaps, and the coverage warning is appended for the file exactly
\* when this value is below 100.
C25_CoverageFormulaAndWarning ==
  (Verified /\ verify_run.result.success) =>
    \A i \in DOMAIN verify_run.result.date_range_info :
      LET e == verify_run.result.date_range_info[i]
          expected == e.info.candles_expected
          covered == (expected - totalMissingFromGaps(e.info.gaps)) * 100
      IN /\ e.info.coverage_percentage.num * expected
              = covered * e.info.coverage_percentage.den
         /\ e.info.coverage_percentage.den > 0
         /\ HasWarning("coverage", e.file) <=> covered < 100 * expected

C25_Witness ==
  /\ Verified
  /\ verify_run.result.success
  /\ \E i \in DOMAIN verify_run.result.date_range_info :
       LET e == verify_run.result.date_range_info[i]
       IN /\ e.info.candles_expected = 48
          /\ totalMissingFromGaps(e.info.gaps) = 3
          /\ e.info.coverage_percentage = [num |-> 4500, den |-> 48]
          /\ HasWarning("coverage", e.file)

\* the reported gaps that do not lie entirely outside the requested window
RECURSIVE MissingInWindow(_, _, _)
MissingInWindow(gaps, requested_start, requested_end) ==
  IF gaps = << >> THEN 0
  ELSE (IF Head(gaps).end_date <= requested_start \/ Head(gaps).start_date >= requested_end
        THEN 0 ELSE Head(gaps).missing_candles)
       + MissingInWindow(Tail(gaps), requested_start, requested_end)

\* C30: for every file that passes the row-count check the DateRangeInfo has
\* 0 <= coverage_percentage <= 100, and rows or gaps entirely outside the
\* requested window do not lower it: only candles missing inside the window
\* reduce it.
C30_CoverageBoundedAndWindowed ==
  (Verified /\ verify_run.result.success) =>
    \A i \in DOMAIN verify_run.result.date_range_info :
      LET info == verify_run.result.date_range_info[i].info
          coverage == info.coverage_percentage
      IN /\ 0 <= coverage.num
         /\ coverage.num <= 100 * coverage.den
         /\ coverage.num * info.candles_expected =
              (info.candles_expected
                 - MissingInWindow(info.gaps, info.requested_start, info.requested_end))
              * 100 * coverage.den

\* ------------------------------------------------------------------ C26
\* the invocations of run_docker_command made so far, as (job, ordinal)
Invocations == { inv \in Jobs \X (1..4) : inv[2] <= Len(jnames[inv[1]]) }

\* C26: every invocation of run_docker_command attaches a log artifact name
\* distinct from that of every other invocation, and under any interleaving
\* of concurrent invocations an invocation parses only the artifact its own
\* container wrote, which is still there when it comes to parse it (no
\* other invocation deleted or replaced it).
C26_LogNamesUnique ==
  /\ \A a, b \in Invocations :
       a # b => jnames[a[1]][a[2]] # jnames[b[1]][b[2]]
  /\ \A j \in Jobs : \A i \in 1..Len(jparsed[j]) : jparsed[j][i] = j
  /\ \A j \in Jobs :
       jpc[j] \in { "dl_docker_exit", "bt_docker_exit" } =>
         /\ jlog[j] \in DOMAIN logs_dir
         /\ logs_dir[jlog[j]].writer = j

\* job1 started its download command while that of job2 was running, and
\* has parsed and removed its own artifact; that of job2 is still in place
C26_Witness ==
  /\ jpc["job1"] = "dl_verify"
  /\ jpc["job2"] = "dl_docker_exit"
  /\ jnames["job2"] = << 1 >>
  /\ jnames["job1"] = << 2 >>
  /\ jparsed["job1"] = << "job1" >>
  /\ DOMAIN logs_dir = { 1 }

\* ------------------------------------------------------------------ C27
\* C27: there is no mutual exclusion between the verify-then-download steps
\* of different jobs: a job that is about to verify is admitted to the
\* verification, and a job that has seen the data as not yet downloaded can
\* run the download command, whatever the other job is doing, so two jobs
\* with overlapping manifests may both report "not downloaded" and both
\* download.
C27_NoDownloadExclusion ==
  \A j \in Jobs :
    /\ jpc[j] = "download" => download_admitted(j)
    /\ jpc[j] = "dl_compose_run" => ENABLED job_download_run(j)

\* both jobs saw the data as not downloaded, both invoked the download
\* command, and the two download commands are running at the same time
C27_Witness ==
  /\ \A j \in Jobs :
       /\ jtrace[j] = << "verify_pre_failed", "docker_download" >>
       /\ jpc[j] = "dl_docker_exit"
  /\ DOMAIN logs_dir = { 1, 2 }

\* ------------------------------------------------------------------ C29
\* job j's backtesting command has written its bundle and job j has not
\* parsed it yet
BundlePending(j) == jpc[j] \in { "bt_docker_exit", "bt_resolve" }

\* C29: under any interleaving of two jobs of one user, cleanup_results of
\* one job removes only that job's result artifacts: the bundle of the other
\* job stays in the results folder from the moment its backtesting command
\* wrote it until that job has parsed it.
C29_CleanupKeepsOtherBundle ==
  \A j \in Jobs : BundlePending(j) => bundle_name[j] \in DOMAIN results_dir

\* ------------------------------------------------------------------ C28
\* C28: every execution of run_backtest_task that has ended, by returning or
\* by raising at any point (a strategy or job lookup that fails before the
\* download stage included), has left the job's persisted status in
\* finished or failed; none ends with the job in its initial status, in
\* downloading_data or in running.
C28_EndedJobIsTerminal ==
  pc = "done" => status \in { "finished", "failed" }

====
